---------------------------- MODULE Spec2Model ----------------------------
(***************************************************************************)
(* sortTF: canonical ordering of the blocks and attributes of HCL          *)
(* documents (sortingutil), the structural validator (parsingutil) and the *)
(* per-file pipeline (cliutil.processFile).                                *)
(*                                                                         *)
(* A body (hclwrite.Body, hclsyntax.Body) is the sequence of its items in  *)
(* source order.  An item is an attribute [k, name, expr] or a block       *)
(* [k, type, labels, body].  A document is its root body.                  *)
(***************************************************************************)
EXTENDS Integers, Sequences, FiniteSets, TLC

VARIABLES
    doc,        \* SortSpec/ValidateSpec: the input file (NilFile: a nil pointer)
    phase,      \* SortSpec/ValidateSpec: position of the driver
    verr,       \* result of ValidateRequiredBlockLabels(doc)
    sorted,     \* result of SortHCLFile(doc)
    bytes1,     \* sorted.Bytes()
    resorted,   \* SortHCLFile(ParseConfig(bytes1))
    \* Spec: processFile called MaxRuns times on one file
    disk,       \* the content of filePath
    tmp,        \* the content of filePath + ".tmp" (NoFile: it does not exist)
    cfg,        \* config.DryRun, config.Validate
    tf,         \* the terraform binary: "ok", "missing", or "rejects" (terraform fmt fails)
    fs,         \* the file system: "ok", "unreadable", "tmp_write_fails", "rename_fails"
    pc,         \* position in processFile
    run,        \* number of the call of processFile
    origContent, parsed, hclFile, sortedFile, formatted,   \* locals of processFile
    ret,        \* what processFile returned
    steps,      \* the steps the call has run, in order
    prev,       \* ret, steps and formatted of the call before
    disk0,      \* the content of filePath before the first call
    \* BatchSpec: runMainLogic over the files under config.Root (with cfg and tf)
    root,       \* what config.Root is: "missing", "dir", "dir_error", "file", "unsupported"
    tree,       \* the files FindFiles lists, in its order: content, tmp, fault
    files,      \* the slice files: indices into tree
    idx,        \* the position of the loop over files
    processedCount, errorCount, noChangesCount,
    called,     \* the files processFile was called on, in order
    outcomes,   \* what each call returned
    exitCode,   \* what runMainLogic returns
    bpc,        \* position in runMainLogic
    \* FormatSpec: one call of SortAndFormatHCLFile
    fdoc,       \* the file it is given
    fenv,       \* what the call meets: terraform missing, a failing step, or neither
    fpc,        \* position in the call
    fcontent,   \* the argument of applyTerraformFmt
    ftmp,       \* the temporary file of applyTerraformFmt
    fdefers,    \* the deferred calls of applyTerraformFmt, last deferred first
    feffects,   \* the calls made outside the process, in order
    ares,       \* what applyTerraformFmt returns
    ffmt,       \* what FormatHCLFile returns
    fres,       \* what SortAndFormatHCLFile returns
    \* the specifications of one function called once, and CliSpec
    args,       \* the arguments of the call
    result,     \* what the call returned
    fnpc,       \* "input" before the call, "returned" after it
    \* ParSpec: two workers, each running processFile on its own file
    pfs,        \* the file system: path -> content
    pfs0,       \* the file system before the run
    wpc,        \* worker -> position in processFile
    wlocal      \* worker -> locals of processFile and applyTerraformFmt

sortVars == <<doc, phase, verr, sorted, bytes1, resorted>>
pipeVars == <<disk, tmp, cfg, tf, fs, pc, run, origContent, parsed, hclFile, sortedFile,
              formatted, ret, steps, prev, disk0>>
batchVars == <<root, tree, files, idx, processedCount, errorCount, noChangesCount, called,
               outcomes, exitCode, bpc>>
fmtVars == <<fdoc, fenv, fpc, fcontent, ftmp, fdefers, feffects, ares, ffmt, fres>>
fnVars == <<args, result, fnpc>>
parVars == <<pfs, pfs0, wpc, wlocal>>
moreVars == <<fnVars, parVars>>
restVars == <<batchVars, fmtVars, moreVars>>
vars == <<sortVars, pipeVars, restVars>>

\* a file (*hclwrite.File, *ParsedFile): nil, or its root body
File(body) == [nil |-> FALSE, body |-> body]
NilFile == [nil |-> TRUE, body |-> <<>>]
NoError == [kind |-> "ok", rule |-> "", type |-> "", got |-> <<>>]

(***************************************************************************)
(* Bounds of the model.                                                    *)
(***************************************************************************)
MaxItems == 3      \* items in the body under test
MaxDepth == 3      \* nesting depth at which the body under test sits (1 = root)
MaxLabels == 3     \* labels of a block in the documents validated
MaxBlocks == 2     \* top-level blocks of the documents validated
MaxFileItems == 2  \* items in the root body of a file on disk
MaxRuns == 2       \* calls of processFile on the file

(***************************************************************************)
(* Strings.  Go compares strings byte by byte; Bytes gives the bytes of    *)
(* every string the model uses.                                            *)
(***************************************************************************)
Bytes(s) ==
    CASE s = "terraform" -> <<116,101,114,114,97,102,111,114,109>>
      [] s = "provider"  -> <<112,114,111,118,105,100,101,114>>
      [] s = "variable"  -> <<118,97,114,105,97,98,108,101>>
      [] s = "output"    -> <<111,117,116,112,117,116>>
      [] s = "resource"  -> <<114,101,115,111,117,114,99,101>>
      [] s = "Resource"  -> <<82,101,115,111,117,114,99,101>>
      [] s = "data"      -> <<100,97,116,97>>
      [] s = "module"    -> <<109,111,100,117,108,101>>
      [] s = "locals"    -> <<108,111,99,97,108,115>>
      [] s = "backend"   -> <<98,97,99,107,101,110,100>>
      [] s = "Backend"   -> <<66,97,99,107,101,110,100>>
      [] s = "ingress"   -> <<105,110,103,114,101,115,115>>
      [] s = "egress"    -> <<101,103,114,101,115,115>>
      [] s = "for_each"  -> <<102,111,114,95,101,97,99,104>>
      [] s = "a"         -> <<97>>
      [] s = "ab"        -> <<97,98>>
      [] s = "b"         -> <<98>>
      [] s = "B"         -> <<66>>
      [] s = "z"         -> <<122>>
      [] s = ""          -> <<>>
      [] s = "main.tf" -> <<109,97,105,110,46,116,102>>
      [] s = "MAIN.TF" -> <<77,65,73,78,46,84,70>>
      [] s = "a.hcl" -> <<97,46,104,99,108>>
      [] s = "notes.txt" -> <<110,111,116,101,115,46,116,120,116>>
      [] s = "link.tf" -> <<108,105,110,107,46,116,102>>
      [] s = ".terraform.lock.hcl" -> <<46,116,101,114,114,97,102,111,114,109,46,108,111,99,107,46,104,99,108>>
      [] s = ".terraform.tf" -> <<46,116,101,114,114,97,102,111,114,109,46,116,102>>
      [] s = ".terraform" -> <<46,116,101,114,114,97,102,111,114,109>>
      [] s = "dir" -> <<100,105,114>>
      [] s = ".tf" -> <<46,116,102>>
      [] s = ".hcl" -> <<46,104,99,108>>
      [] s = "--help" -> <<45,45,104,101,108,112>>
      [] s = "-h" -> <<45,104>>
      [] s = "--validate" -> <<45,45,118,97,108,105,100,97,116,101>>
      [] s = "--dry-run" -> <<45,45,100,114,121,45,114,117,110>>
      [] s = "--bogus" -> <<45,45,98,111,103,117,115>>
      [] s = "--" -> <<45,45>>
      [] s = "help" -> <<104,101,108,112>>
      [] s = "h" -> <<104>>
      [] s = "validate" -> <<118,97,108,105,100,97,116,101>>
      [] s = "dry-run" -> <<100,114,121,45,114,117,110>>
      [] s = "recursive" -> <<114,101,99,117,114,115,105,118,101>>
      [] s = "verbose" -> <<118,101,114,98,111,115,101>>
      [] s = "missing" -> <<109,105,115,115,105,110,103>>
      [] s = "." -> <<46>>

\* s < t on Go strings: lexicographic on bytes, a strict prefix first.
RECURSIVE BytesLess(_, _)
BytesLess(x, y) ==
    IF y = <<>> THEN FALSE
    ELSE IF x = <<>> THEN TRUE
    ELSE IF Head(x) # Head(y) THEN Head(x) < Head(y)
    ELSE BytesLess(Tail(x), Tail(y))

StrLess(s, t) == BytesLess(Bytes(s), Bytes(t))

\* strings.ToLower on ASCII bytes
ToLower(x) == [i \in DOMAIN x |-> IF x[i] >= 65 /\ x[i] <= 90 THEN x[i] + 32 ELSE x[i]]

\* strings.HasPrefix and strings.HasSuffix on bytes
HasPrefix(x, prefix) == Len(x) >= Len(prefix) /\ SubSeq(x, 1, Len(prefix)) = prefix
HasSuffix(x, suffix) == Len(x) >= Len(suffix) /\ SubSeq(x, Len(x) - Len(suffix) + 1, Len(x)) = suffix

(***************************************************************************)
(* Items and the hclwrite.Body operations the sorter uses.                 *)
(***************************************************************************)
\* An attribute and a block, each with the comment attached to it in the
\* parse tree (its lead comment or its line comment; "" for none).
AttrC(n, e, c) == [k |-> "attr", name |-> n, expr |-> e, comment |-> c]
BlkC(t, l, b, c) == [k |-> "block", type |-> t, labels |-> l, body |-> b, comment |-> c]
Attr(n, e) == AttrC(n, e, "")
Blk(t, l, b) == BlkC(t, l, b, "")

IsAttr(it) == it.k = "attr"
IsBlock(it) == it.k = "block"

\* body.Blocks(): the blocks of the body, in order
Blocks(body) == SelectSeq(body, IsBlock)
\* body.Attributes(): the attributes (a map keyed by name; here in source order)
Attributes(body) == SelectSeq(body, IsAttr)
AttrNames(body) == {body[i].name : i \in {j \in DOMAIN body : IsAttr(body[j])}}
AttrExpr(body, n) == (CHOOSE i \in DOMAIN body : IsAttr(body[i]) /\ body[i].name = n)


\* body.RemoveAttribute(name)
RemoveAttribute(body, n) == SelectSeq(body, LAMBDA it : ~(IsAttr(it) /\ it.name = n))

\* body.SetAttributeRaw(name, tokens): replaces the expression of an existing
\* attribute in place, otherwise appends a new attribute at the end of the body
SetAttributeRaw(body, n, e) ==
    IF n \in AttrNames(body)
    THEN [i \in DOMAIN body |->
            IF IsAttr(body[i]) /\ body[i].name = n THEN [body[i] EXCEPT !.expr = e]
            ELSE body[i]]
    ELSE Append(body, Attr(n, e))

\* body.RemoveBlock applied to every block of the body
RemoveBlocks(body) == SelectSeq(body, IsAttr)

\* body.AppendBlock(block)
AppendBlock(body, b) == Append(body, b)

(***************************************************************************)
(* sort.Strings.                                                           *)
(***************************************************************************)
\* sort.Strings with the comparison turned round
RECURSIVE SortStringsDescending(_)
SortStringsDescending(S) ==
    IF S = {} THEN <<>>
    ELSE LET m == CHOOSE x \in S : \A y \in S \ {x} : StrLess(y, x)
         IN <<m>> \o SortStringsDescending(S \ {m})

RECURSIVE SortStrings(_)
SortStrings(S) ==
    IF S = {} THEN <<>>
    ELSE LET m == CHOOSE x \in S : \A y \in S \ {x} : StrLess(x, y)
         IN <<m>> \o SortStrings(S \ {m})

(***************************************************************************)
(* sortingutil                                                             *)
(***************************************************************************)
getBlockType(name) ==
    LET l == ToLower(Bytes(name)) IN
    CASE l = Bytes("terraform") -> "terraform"
      [] l = Bytes("provider")  -> "provider"
      [] l = Bytes("variable")  -> "variable"
      [] l = Bytes("output")    -> "output"
      [] l = Bytes("resource")  -> "resource"
      [] l = Bytes("data")      -> "data"
      [] l = Bytes("module")    -> "module"
      [] l = Bytes("locals")    -> "locals"
      [] l = Bytes("backend")   -> "backend"
      [] OTHER                  -> "other"

\* blockTypeOrder with the entries of data and resource exchanged
blockTypeOrderSwapped(t) ==
    CASE t = "terraform" -> 1
      [] t = "provider"  -> 2
      [] t = "variable"  -> 3
      [] t = "locals"    -> 4
      [] t = "data"      -> 6
      [] t = "resource"  -> 5
      [] t = "module"    -> 7
      [] t = "output"    -> 8
      [] t = "backend"   -> 9
      [] t = "other"     -> 10
      [] OTHER           -> 0

blockTypeOrder(t) ==
    CASE t = "terraform" -> 1
      [] t = "provider"  -> 2
      [] t = "variable"  -> 3
      [] t = "locals"    -> 4
      [] t = "data"      -> 5
      [] t = "resource"  -> 6
      [] t = "module"    -> 7
      [] t = "output"    -> 8
      [] t = "backend"   -> 9
      [] t = "other"     -> 10
      [] OTHER           -> 0

Min(a, b) == IF a < b THEN a ELSE b

\* a compareLabels that ends with return false
compareLabelsNoLength(labels1, labels2) ==
    LET minLen == Min(Len(labels1), Len(labels2))
        diff == {h \in 1..minLen : labels1[h] # labels2[h]}
    IN IF diff # {} THEN StrLess(labels1[CHOOSE h \in diff : \A g \in diff : h <= g],
                                 labels2[CHOOSE h \in diff : \A g \in diff : h <= g])
       ELSE FALSE

compareLabels(labels1, labels2) ==
    LET minLen == Min(Len(labels1), Len(labels2))
        diff == {i \in 1..minLen : labels1[i] # labels2[i]}
    IN IF diff # {}
       THEN LET i == CHOOSE j \in diff : \A h \in diff : j <= h
            IN StrLess(labels1[i], labels2[i])
       ELSE Len(labels1) < Len(labels2)

\* a parseBlocks that skips only the keyword written backend
parseBlocksCaseSensitive(body) ==
    LET bs == Blocks(body)
        tagged == [h \in DOMAIN bs |->
                     [Type |-> getBlockType(bs[h].type), Labels |-> bs[h].labels, Block |-> bs[h]]]
    IN SelectSeq(tagged, LAMBDA b : b.Block.type # "backend")

\* parseBlocks: the blocks of the root body, tagged, without those tagged backend
parseBlocks(body) ==
    LET bs == Blocks(body)
        tagged == [i \in DOMAIN bs |->
                     [Type |-> getBlockType(bs[i].type), Labels |-> bs[i].labels, Block |-> bs[i]]]
    IN SelectSeq(tagged, LAMBDA b : b.Type # "backend")

\* the less function of sortBlocks answering true for blocks of equal type and labels
blockLessOrEqual(x, y) ==
    IF blockTypeOrder(x.Type) # blockTypeOrder(y.Type)
    THEN blockTypeOrder(x.Type) < blockTypeOrder(y.Type)
    ELSE ~compareLabels(y.Labels, x.Labels)

\* the less function of sortBlocks
blockLess(x, y) ==
    IF blockTypeOrder(x.Type) # blockTypeOrder(y.Type)
    THEN blockTypeOrder(x.Type) < blockTypeOrder(y.Type)
    ELSE compareLabels(x.Labels, y.Labels)


\* the nested less function answering true for blocks of equal type and labels
nestedLessOrEqual(x, y) ==
    LET typeOrderI == blockTypeOrder(getBlockType(x.type))
        typeOrderJ == blockTypeOrder(getBlockType(y.type))
    IN IF typeOrderI # typeOrderJ
       THEN typeOrderI < typeOrderJ
       ELSE ~compareLabels(y.labels, x.labels)

\* the less function of the nested sort in sortBlockAttributes
nestedLess(x, y) ==
    LET typeOrderI == blockTypeOrder(getBlockType(x.type))
        typeOrderJ == blockTypeOrder(getBlockType(y.type))
    IN IF typeOrderI # typeOrderJ
       THEN typeOrderI < typeOrderJ
       ELSE compareLabels(x.labels, y.labels)

\* a less function of SortBlocksByType answering true for blocks of equal type
lessByTypeOrEqual(x, y) == blockTypeOrder(x.Type) <= blockTypeOrder(y.Type)

\* the less function of SortBlocksByType
lessByType(x, y) == blockTypeOrder(x.Type) < blockTypeOrder(y.Type)

\* the less function of SortBlocksByLabels
lessByLabels(x, y) == compareLabels(x.Labels, y.Labels)

\* the less function handed to sort.SliceStable: that of sortBlocks, of
\* SortBlocksByType, of SortBlocksByLabels, or that of the nested sort
Less(less, x, y) ==
    CASE less = "sortBlocks" -> blockLess(x, y)
      [] less = "byType" -> lessByType(x, y)
      [] less = "byLabels" -> lessByLabels(x, y)
      [] OTHER -> nestedLess(x, y)

\* insertion sort, as sort.SliceStable runs it on short slices: x moves left
\* past every element it is less than and stops behind the first it is not
InsertStable(s, x, less) ==
    LET stops == {j \in 1..Len(s) : ~Less(less, x, s[j])}
        p == IF stops = {} THEN 0 ELSE CHOOSE j \in stops : \A h \in stops : h <= j
    IN SubSeq(s, 1, p) \o <<x>> \o SubSeq(s, p + 1, Len(s))

SliceStable(s, less) ==
    LET f[n \in 0..Len(s)] == IF n = 0 THEN <<>> ELSE InsertStable(f[n - 1], s[n], less)
    IN f[Len(s)]

sortBlocks(blocks) == SliceStable(blocks, "sortBlocks")

SortBlocksByType(blocks) == SliceStable(blocks, "byType")

SortBlocksByLabels(blocks) == SliceStable(blocks, "byLabels")

\* the body after "If for_each exists, write it first"
WriteForEach(body, attributes) ==
    IF "for_each" \in AttrNames(attributes)
    THEN SetAttributeRaw(body, "for_each", attributes[AttrExpr(attributes, "for_each")].expr)
    ELSE body

\* the body after the loop over the sorted rest
RECURSIVE WriteRest(_, _, _)
WriteRest(body, rest, attributes) ==
    IF rest = <<>> THEN body
    ELSE WriteRest(SetAttributeRaw(body, Head(rest), attributes[AttrExpr(attributes, Head(rest))].expr),
                   Tail(rest), attributes)

RECURSIVE RemoveAttributes(_, _)
RemoveAttributes(body, names) ==
    IF names = {} THEN body
    ELSE LET n == CHOOSE x \in names : TRUE
         IN RemoveAttributes(RemoveAttribute(body, n), names \ {n})

RECURSIVE sortBlockAttributes(_)
RECURSIVE AppendSorted(_, _)

\* "Re-add nested blocks in sorted order and sort their attributes"
AppendSorted(body, nestedBlocks) ==
    IF nestedBlocks = <<>> THEN body
    ELSE AppendSorted(AppendBlock(body, sortBlockAttributes(Head(nestedBlocks))), Tail(nestedBlocks))

sortBlockAttributes(block) ==
    LET attributes == Attributes(block.body)
        attrNames == AttrNames(block.body)
        removed == RemoveAttributes(block.body, attrNames)
        first == WriteForEach(removed, attributes)
        rest == SortStrings(attrNames \ {"for_each"})
        written == WriteRest(first, rest, attributes)
        nestedBlocks == Blocks(written)
        newBody == IF Len(nestedBlocks) > 0
                   THEN AppendSorted(RemoveBlocks(written), SliceStable(nestedBlocks, "nested"))
                   ELSE written
    IN [block EXCEPT !.body = newBody]

RECURSIVE AppendAll(_, _)
AppendAll(body, blocks) ==
    IF blocks = <<>> THEN body
    ELSE AppendAll(AppendBlock(body, sortBlockAttributes(Head(blocks).Block)), Tail(blocks))

\* SortHCLFile: a new file holding the sorted blocks of the input
SortHCLFile(file) ==
    IF file.nil THEN File(<<>>)
    ELSE File(AppendAll(<<>>, sortBlocks(parseBlocks(file.body))))

(***************************************************************************)
(* parsingutil.ValidateRequiredBlockLabels.  An error is the ValidationError *)
(* with what its message holds: the rule, the block type it prints and the *)
(* label count it prints (<<n>>, and <<>> when the message prints none).   *)
(***************************************************************************)
ValidationError(rule, type, got) == [kind |-> "ValidationError", rule |-> rule, type |-> type, got |-> got]

\* checkLabels asking one label of resource and data blocks
checkLabelsOneLabel(block) ==
    LET n == Len(block.labels) IN
    CASE block.type \in {"resource", "data", "module", "provider", "variable", "output"} ->
            IF n # 1 THEN ValidationError("must have exactly 1 label", block.type, <<n>>) ELSE NoError
      [] block.type \in {"locals", "terraform"} ->
            IF n # 0 THEN ValidationError("should not have labels", block.type, <<n>>) ELSE NoError
      [] block.type = "backend" ->
            IF n # 1 THEN ValidationError("must have exactly 1 label", block.type, <<n>>)
            ELSE ValidationError("must be inside a terraform block", "backend", <<>>)
      [] OTHER -> NoError

\* the switch on block.Type: the keyword is compared as written
checkLabels(block) ==
    LET n == Len(block.labels) IN
    CASE block.type \in {"resource", "data"} ->
            IF n # 2 THEN ValidationError("must have exactly 2 labels", block.type, <<n>>) ELSE NoError
      [] block.type \in {"module", "provider", "variable", "output"} ->
            IF n # 1 THEN ValidationError("must have exactly 1 label", block.type, <<n>>) ELSE NoError
      [] block.type \in {"locals", "terraform"} ->
            IF n # 0 THEN ValidationError("should not have labels", block.type, <<n>>) ELSE NoError
      [] block.type = "backend" ->
            IF n # 1 THEN ValidationError("must have exactly 1 label", block.type, <<n>>)
            ELSE ValidationError("must be inside a terraform block", "backend", <<>>)
      [] OTHER -> NoError

\* checkInner looking at the first nested block only
checkInnerFirstOnly(block) ==
    IF block.type = "terraform"
    THEN LET inner == Blocks(block.body)
         IN IF inner # <<>> /\ inner[1].type = "backend" /\ Len(inner[1].labels) # 1
            THEN ValidationError("inside terraform must have exactly 1 label", "backend", <<Len(inner[1].labels)>>)
            ELSE NoError
    ELSE NoError

\* "Special case: backend block must be inside terraform block"
checkInner(block) ==
    IF block.type = "terraform"
    THEN LET inner == Blocks(block.body)
             bad == {i \in DOMAIN inner : inner[i].type = "backend" /\ Len(inner[i].labels) # 1}
         IN IF bad = {} THEN NoError
            ELSE LET i == CHOOSE j \in bad : \A h \in bad : j <= h
                 IN ValidationError("inside terraform must have exactly 1 label", "backend", <<Len(inner[i].labels)>>)
    ELSE NoError

\* one iteration of the loop over syntaxBody.Blocks
checkBlock(block) ==
    IF checkLabels(block) # NoError THEN checkLabels(block) ELSE checkInner(block)

\* a validator that goes through all blocks and keeps the last error
ValidateRequiredBlockLabelsLast(pf) ==
    IF pf.nil THEN ValidationError("parsed file is nil", "", <<>>)
    ELSE LET bs == Blocks(pf.body)
             bad == {h \in DOMAIN bs : checkBlock(bs[h]) # NoError}
         IN IF bad = {} THEN NoError
            ELSE checkBlock(bs[CHOOSE j \in bad : \A h \in bad : j >= h])

ValidateRequiredBlockLabels(pf) ==
    IF pf.nil THEN ValidationError("parsed file is nil", "", <<>>)
    ELSE LET bs == Blocks(pf.body)
             bad == {i \in DOMAIN bs : checkBlock(bs[i]) # NoError}
         IN IF bad = {} THEN NoError
            ELSE checkBlock(bs[CHOOSE j \in bad : \A h \in bad : j <= h])

(***************************************************************************)
(* Serialisation (hclwrite File.Bytes) and parsing (hclwrite.ParseConfig,  *)
(* hclparse ParseHCL).  The text of a file is its layout and its tokens:   *)
(* one token per attribute, per block opening and per block closing.       *)
(***************************************************************************)
TAttrC(n, e, c) == [t |-> "attr", name |-> n, expr |-> e, labels |-> <<>>, comment |-> c]
TOpenC(ty, l, c) == [t |-> "open", name |-> ty, expr |-> "", labels |-> l, comment |-> c]
TAttr(n, e) == TAttrC(n, e, "")
TOpen(ty, l) == TOpenC(ty, l, "")
TClose == [t |-> "close", name |-> "", expr |-> "", labels |-> <<>>, comment |-> ""]

RECURSIVE BuildTokens(_)
BuildTokens(body) ==
    IF body = <<>> THEN <<>>
    ELSE LET it == Head(body) IN
         (IF IsAttr(it) THEN <<TAttrC(it.name, it.expr, it.comment)>>
          ELSE <<TOpenC(it.type, it.labels, it.comment)>> \o BuildTokens(it.body) \o <<TClose>>)
         \o BuildTokens(Tail(body))

\* the parser: a stack of open bodies, the root body at the bottom.  A
\* closing without an opening, an opening never closed and an attribute
\* named twice in one body are syntax errors.
SyntaxError == [ok |-> FALSE, body |-> <<>>]

RECURSIVE ParseFrom(_, _, _)
ParseFrom(toks, i, stack) ==
    LET n == Len(stack) IN
    IF i > Len(toks) THEN (IF n = 1 THEN [ok |-> TRUE, body |-> stack[1].body] ELSE SyntaxError)
    ELSE LET tok == toks[i] IN
         CASE tok.t = "attr" ->
                IF tok.name \in AttrNames(stack[n].body) THEN SyntaxError
                ELSE ParseFrom(toks, i + 1,
                        [stack EXCEPT ![n].body = Append(@, AttrC(tok.name, tok.expr, tok.comment))])
           [] tok.t = "open" ->
                ParseFrom(toks, i + 1, Append(stack, BlkC(tok.name, tok.labels, <<>>, tok.comment)))
           [] tok.t = "close" ->
                IF n = 1 THEN SyntaxError
                ELSE ParseFrom(toks, i + 1,
                        [SubSeq(stack, 1, n - 1) EXCEPT ![n - 1].body = Append(@, stack[n])])

ParseTokens(toks) == ParseFrom(toks, 1, <<Blk("", <<>>, <<>>)>>)

(***************************************************************************)
(* Text.  The bytes of a file are its tokens and its layout: "raw" (as     *)
(* somebody wrote it), "hclwrite" (as File.Bytes() lays out a rebuilt      *)
(* file) or "fmt" (as terraform fmt leaves it).  The empty text has no     *)
(* bytes; a file of blank space only has layout "raw" and no tokens.       *)
(***************************************************************************)
Text(lay, toks) == [lay |-> lay, toks |-> toks]
EmptyText == Text("fmt", <<>>)
NoFile == Text("absent", <<>>)
PartialFile == Text("partial", <<>>)

\* file.Bytes()
FileBytes(file) ==
    IF file.body = <<>> THEN EmptyText ELSE Text("hclwrite", BuildTokens(file.body))

\* terraform fmt on a file: the canonical layout of the same tokens
TerraformFmt(content) == Text("fmt", content.toks)

(***************************************************************************)
(* formattingutil                                                          *)
(***************************************************************************)
\* An error is the chain of the types of the error values, outermost first,
\* each the Err field of the one before; nil is the empty chain.  An error
\* made by fmt.Errorf is a plain "error": %v keeps the text of what it was
\* given, not the value.
Result(text, err) == [text |-> text, err |-> err]
Nil == <<>>
Errorf == <<"error">>
FormattingError(err) == <<"FormattingError">> \o err
TerraformNotFoundError(err) == <<"TerraformNotFoundError">> \o err
SortingError(err) == <<"SortingError">> \o err

\* checkTerraformAvailable: exec.LookPath("terraform")
checkTerraformAvailable(terraform) ==
    IF terraform = "missing" THEN TerraformNotFoundError(Errorf) ELSE Nil

\* applyTerraformFmt; terraform says what the call meets: "ok", "missing" (no
\* terraform on the PATH), "create_fails", "write_fails", "read_fails" (the
\* temporary file) or "rejects" (terraform fmt exits non-zero)
\* an applyTerraformFmt without the test of line 89
SkipsFormatterNever(content) == FALSE

\* if content == "": applyTerraformFmt returns before anything else
SkipsFormatter(content) == content = EmptyText

applyTerraformFmt(content, terraform) ==
    IF SkipsFormatter(content) THEN Result(EmptyText, Nil)
    ELSE IF checkTerraformAvailable(terraform) # Nil
         THEN Result(content, checkTerraformAvailable(terraform))
    ELSE IF terraform \in {"create_fails", "write_fails", "rejects", "read_fails"}
         THEN Result(content, FormattingError(Errorf))
    ELSE Result(TerraformFmt(content), Nil)

FormatHCLFile(file, terraform) ==
    IF file.nil THEN Result(EmptyText, FormattingError(Errorf))
    ELSE LET r == applyTerraformFmt(FileBytes(file), terraform) IN
         IF r.err # Nil THEN Result(FileBytes(file), FormattingError(r.err))
         ELSE r

\* sortingutil.SortAndFormatHCLFile, given the file SortHCLFile returned
SortAndFormatHCLFile(sortedF, terraform) ==
    LET r == FormatHCLFile(sortedF, terraform) IN
    IF r.err # Nil THEN Result(r.text, SortingError(r.err)) ELSE r

\* the type assertion err.(*T)
IsA(err, T) == err # Nil /\ Head(err) = T

IsTerraformNotFoundError(err) ==
    IF IsA(err, "TerraformNotFoundError") THEN TRUE
    ELSE IF IsA(err, "FormattingError") THEN IsA(Tail(err), "TerraformNotFoundError")
    ELSE FALSE

(***************************************************************************)
(* parsingutil.ParseHCLFile on the file at filePath.                       *)
(***************************************************************************)
\* a ParseHCLFile that returns no ParsedFile when the diagnostics have errors
ParseHCLFileDiscardsPartial(fsys, content) ==
    IF fsys = "unreadable" \/ content = NoFile
    THEN [file |-> NilFile, err |-> "ParsingError"]
    ELSE LET r == ParseTokens(content.toks) IN
         IF r.ok THEN [file |-> File(r.body), err |-> ""]
         ELSE [file |-> NilFile, err |-> "HCLParseError"]

ParseHCLFile(fsys, content) ==
    IF fsys = "unreadable" \/ content = NoFile
    THEN [file |-> NilFile, err |-> "ParsingError"]
    ELSE LET r == ParseTokens(content.toks) IN
         IF r.ok THEN [file |-> File(r.body), err |-> ""]
         ELSE [file |-> File(r.body), err |-> "HCLParseError"]

(***************************************************************************)
(* cliutil.processFile, one action per step.                               *)
(***************************************************************************)
CLIError(why) == [kind |-> "CLIError", why |-> why]
NoChangesError == [kind |-> "NoChangesError", why |-> ""]
ReturnedNil == [kind |-> "nil", why |-> ""]
Running == [kind |-> "running", why |-> ""]

\* bytes.Equal
BytesNeverEqual(a, b) == FALSE
BytesEqual(a, b) == a = b

\* where processFile goes on an error of a step: it returns
OnErrorContinue(err, next) == next
OnError(err, next) == IF err # "" THEN "done" ELSE next

Return(r) == /\ ret' = r
             /\ pc' = "done"

Step(name) == steps' = Append(steps, name)

\* Step 1: os.ReadFile(filePath)
ReadFile ==
    /\ pc = "start"
    /\ Step("read")
    /\ IF fs = "unreadable" \/ disk = NoFile
       THEN Return(CLIError("failed to read file")) /\ UNCHANGED origContent
       ELSE origContent' = disk /\ pc' = "read" /\ UNCHANGED ret
    /\ UNCHANGED <<sortVars, restVars, disk, tmp, cfg, tf, fs, run, parsed, hclFile, sortedFile,
                   formatted, prev, disk0>>

\* Step 2: parsingutil.ParseHCLFile(filePath)
Parse ==
    /\ pc = "read"
    /\ Step("parse")
    /\ LET r == ParseHCLFile(fs, disk) IN
       /\ parsed' = r.file
       /\ pc' = OnError(r.err, "parsed")
       /\ ret' = IF r.err = "" THEN ret
                 ELSE IF r.err = "HCLParseError" THEN CLIError("syntax error")
                 ELSE CLIError("parsing error")
    /\ UNCHANGED <<sortVars, restVars, disk, tmp, cfg, tf, fs, run, origContent, hclFile, sortedFile,
                   formatted, prev, disk0>>

\* parsingutil.ValidateRequiredBlockLabels(parsed)
ValidateLabels ==
    /\ pc = "parsed"
    /\ Step("validate")
    /\ LET err == ValidateRequiredBlockLabels(parsed) IN
       /\ pc' = OnError(IF err = NoError THEN "" ELSE err.kind, "validated")
       /\ ret' = IF err = NoError THEN ret ELSE CLIError("validation error")
    /\ UNCHANGED <<sortVars, restVars, disk, tmp, cfg, tf, fs, run, origContent, parsed, hclFile,
                   sortedFile, formatted, prev, disk0>>

\* Step 3: hclwrite.ParseConfig(origContent), then SortHCLFile, the first
\* half of sortingutil.SortAndFormatHCLFile
Canonicalize ==
    /\ pc = "validated"
    /\ Step("canonicalize")
    /\ LET r == ParseTokens(origContent.toks) IN
       IF ~r.ok
       THEN Return(CLIError("failed to parse file as HCL")) /\ UNCHANGED <<hclFile, sortedFile>>
       ELSE /\ hclFile' = File(r.body)
            /\ sortedFile' = SortHCLFile(File(r.body))
            /\ pc' = "sorted"
            /\ UNCHANGED ret
    /\ UNCHANGED <<sortVars, restVars, disk, tmp, cfg, tf, fs, run, origContent, parsed, formatted,
                   prev, disk0>>

\* formattingutil.FormatHCLFile(sorted), the second half of SortAndFormatHCLFile
Format ==
    /\ pc = "sorted"
    /\ Step("format")
    /\ LET r == SortAndFormatHCLFile(sortedFile, tf) IN
       /\ formatted' = r.text
       /\ pc' = OnError(IF r.err = Nil THEN "" ELSE Head(r.err), "formatted")
       /\ ret' = IF r.err = Nil THEN ret ELSE CLIError("sorting/formatting error")
    /\ UNCHANGED <<sortVars, restVars, disk, tmp, cfg, tf, fs, run, origContent, parsed, hclFile,
                   sortedFile, prev, disk0>>

\* a processFile that looks at the mode flags only after the write
AfterCompareFlagsLate(orig, fmtd, config) ==
    IF fmtd = EmptyText THEN "empty"
    ELSE IF BytesEqual(orig, fmtd) THEN "nochanges"
    ELSE "write"

\* what processFile does once it has the formatted text: the safety check,
\* Step 4 (compare), the dry-run return, the validate return, or the write
AfterCompare(orig, fmtd, config) ==
    IF fmtd = EmptyText THEN "empty"
    ELSE IF BytesEqual(orig, fmtd) THEN "nochanges"
    ELSE IF config.DryRun THEN "dryrun"
    ELSE IF config.Validate THEN "validate"
    ELSE "write"

\* what processFile returns where it returns before Step 5
ReturnOf(after) ==
    CASE after = "empty" -> CLIError("formatted content is empty")
      [] after = "nochanges" -> NoChangesError
      [] after = "dryrun" -> ReturnedNil
      [] after = "validate" -> CLIError("file needs update")

\* the safety check, Step 4 (compare) and the dry-run and validate returns
Compare ==
    /\ pc = "formatted"
    /\ Step("compare")
    /\ LET after == AfterCompare(origContent, formatted, cfg) IN
       IF after = "write" THEN pc' = "write" /\ UNCHANGED ret
       ELSE Return(ReturnOf(after))
    /\ UNCHANGED <<sortVars, restVars, disk, tmp, cfg, tf, fs, run, origContent, parsed, hclFile,
                   sortedFile, formatted, prev, disk0>>

\* Step 5: os.WriteFile(tmpFile, formatted); a failed write may leave the
\* file behind, created and not filled
WriteTmp ==
    /\ pc = "write"
    /\ Step("write")
    /\ IF fs = "tmp_write_fails"
       THEN /\ tmp' \in {tmp, PartialFile}
            /\ Return(CLIError("failed to write temp file"))
       ELSE /\ tmp' = formatted
            /\ pc' = "rename"
            /\ UNCHANGED ret
    /\ UNCHANGED <<sortVars, restVars, disk, cfg, tf, fs, run, origContent, parsed, hclFile,
                   sortedFile, formatted, prev, disk0>>

\* os.Rename(tmpFile, filePath)
Rename ==
    /\ pc = "rename"
    /\ Step("rename")
    /\ IF fs = "rename_fails"
       THEN /\ Return(CLIError("failed to replace original file"))
            /\ UNCHANGED <<disk, tmp>>
       ELSE /\ disk' = tmp
            /\ tmp' = NoFile
            /\ Return(ReturnedNil)
    /\ UNCHANGED <<sortVars, restVars, cfg, tf, fs, run, origContent, parsed, hclFile,
                   sortedFile, formatted, prev, disk0>>

\* processFile is called on the file again
NextRun ==
    /\ pc = "done"
    /\ run < MaxRuns
    /\ run' = run + 1
    /\ prev' = [ret |-> ret, steps |-> steps, formatted |-> formatted]
    /\ pc' = "start"
    /\ ret' = Running
    /\ steps' = <<>>
    /\ origContent' = EmptyText
    /\ parsed' = NilFile
    /\ hclFile' = NilFile
    /\ sortedFile' = NilFile
    /\ formatted' = EmptyText
    /\ UNCHANGED <<sortVars, restVars, disk, tmp, cfg, tf, fs, disk0>>

(***************************************************************************)
(* Input documents.                                                        *)
(***************************************************************************)
UniqueAttrs(body) ==
    \A i, j \in DOMAIN body :
        (IsAttr(body[i]) /\ IsAttr(body[j]) /\ body[i].name = body[j].name) => i = j

\* the items of a body under test: attributes, and blocks of several ranks,
\* of equal rank with different labels, and of equal rank and labels
SortItems ==
    { Attr("for_each", "x"), Attr("a", "1"), Attr("b", "2"),
      Blk("terraform", <<>>, <<>>),
      Blk("variable", <<"b">>, <<>>),
      Blk("variable", <<"a">>, <<>>),
      Blk("resource", <<"a", "b">>, <<>>),
      Blk("resource", <<"a">>, <<>>),
      Blk("Resource", <<"a", "a">>, <<>>),
      Blk("backend", <<"a">>, <<>>),
      Blk("Backend", <<"a">>, <<>>),
      Blk("ingress", <<>>, <<>>),
      Blk("egress", <<>>, <<>>) }

\* a body one level down: inside a block that stands before a sibling it
\* sorts behind, both with attributes out of order
Wrap(body) ==
    << Blk("resource", <<"b", "a">>, <<Attr("z", "9")>> \o body),
       Blk("provider", <<"a">>, <<Attr("b", "1"), Attr("a", "2")>>) >>

RECURSIVE WrapN(_, _)
WrapN(n, body) == IF n = 0 THEN body ELSE Wrap(WrapN(n - 1, body))

\* pairs of blocks of every keyword, each with the labels of its type
Keywords == {"terraform", "provider", "variable", "locals", "data", "resource",
             "module", "output", "backend", "ingress", "Backend", "Resource"}
NaturalLabels(kw) ==
    CASE getBlockType(kw) \in {"resource", "data"} -> <<"a", "b">>
      [] getBlockType(kw) \in {"module", "provider", "variable", "output", "backend"} -> <<"a">>
      [] OTHER -> <<>>
RankDocs == {<<Blk(k1, NaturalLabels(k1), <<>>), Blk(k2, NaturalLabels(k2), <<>>)>> : k1, k2 \in Keywords}

\* a backend block inside a terraform block, beside a top-level block that is
\* or is not one
BackendDocs ==
    LET inner == Blk("terraform", <<>>, <<Blk("backend", <<"a">>, <<Attr("b", "2"), Attr("a", "1")>>)>>)
    IN UNION {{<<inner, Blk(k, <<"a">>, <<>>)>>, <<Blk(k, <<"a">>, <<>>), inner>>}
                : k \in {"backend", "Backend", "output"}}

(***************************************************************************)
(* SortSpec: SortHCLFile and ValidateRequiredBlockLabels applied to every  *)
(* input document, then the round trip through the serialised text.        *)
(***************************************************************************)
\* no temporary file of applyTerraformFmt
NoTemp == [exists |-> FALSE, open |-> FALSE, content |-> EmptyText]

\* runMainLogic is not running
BatchIdle ==
    /\ root = "dir" /\ tree = <<>> /\ files = <<>> /\ idx = 0
    /\ processedCount = 0 /\ errorCount = 0 /\ noChangesCount = 0
    /\ called = <<>> /\ outcomes = <<>> /\ exitCode = -1 /\ bpc = "idle"

\* SortAndFormatHCLFile is not running
FormatIdle ==
    /\ fdoc = NilFile /\ fenv = "ok" /\ fpc = "idle" /\ fcontent = EmptyText
    /\ ftmp = NoTemp /\ fdefers = <<>> /\ feffects = <<>>
    /\ ares = Result(EmptyText, Nil)
    /\ ffmt = Result(EmptyText, Nil)
    /\ fres = Result(EmptyText, Nil)

\* no single function is being called, and no workers run
MoreIdle ==
    /\ args = <<>> /\ result = <<>> /\ fnpc = "idle"
    /\ pfs = <<>> /\ pfs0 = <<>> /\ wpc = <<>> /\ wlocal = <<>>

\* no document is being sorted
SortIdle ==
    /\ doc = NilFile /\ phase = "input" /\ verr = NoError
    /\ sorted = NilFile /\ bytes1 = <<>> /\ resorted = NilFile

\* processFile is not running on the single file of Spec
CallIdle ==
    /\ disk = EmptyText /\ disk0 = EmptyText /\ tmp = NoFile
    /\ fs = "ok" /\ pc = "idle" /\ run = 0
    /\ ret = Running /\ steps = <<>>
    /\ prev = [ret |-> Running, steps |-> <<>>, formatted |-> EmptyText]
    /\ origContent = EmptyText /\ parsed = NilFile /\ hclFile = NilFile
    /\ sortedFile = NilFile /\ formatted = EmptyText

\* processFile is not running
PipelineIdle ==
    /\ CallIdle
    /\ cfg = [DryRun |-> FALSE, Validate |-> FALSE]
    /\ tf = "ok"

\* items that carry comments, inside a block
CommentItems ==
    { AttrC("b", "2", "# c1"), Attr("a", "1"), BlkC("ingress", <<>>, <<>>, "# c2") }

SortInit ==
    /\ MoreIdle
    /\ \/ doc = NilFile
       \/ \E m \in 0..MaxItems, c \in {"", "# c3"} : \E b \in [1..m -> CommentItems] :
             UniqueAttrs(b) /\ doc = File(<<BlkC("resource", <<"a", "b">>, b, c)>>)
       \/ \E b \in RankDocs : doc = File(b)
       \/ \E b \in BackendDocs : doc = File(b)
       \/ \E d \in 1..MaxDepth, m \in 0..MaxItems : \E b \in [1..m -> SortItems] :
             /\ UniqueAttrs(b)
             /\ doc = File(WrapN(d - 1, b))
    /\ phase = "input"
    /\ verr = NoError
    /\ sorted = NilFile
    /\ bytes1 = <<>>
    /\ resorted = NilFile
    /\ PipelineIdle
    /\ BatchIdle
    /\ FormatIdle

\* parsingutil.ValidateRequiredBlockLabels(doc)
Validate ==
    /\ phase = "input"
    /\ verr' = ValidateRequiredBlockLabels(doc)
    /\ phase' = "validated"
    /\ UNCHANGED <<doc, sorted, bytes1, resorted, pipeVars, restVars>>

\* sortingutil.SortHCLFile(doc)
Sort ==
    /\ phase = "validated"
    /\ sorted' = SortHCLFile(doc)
    /\ phase' = "sorted"
    /\ UNCHANGED <<doc, verr, bytes1, resorted, pipeVars, restVars>>

\* sorted.Bytes()
Serialise ==
    /\ phase = "sorted"
    /\ bytes1' = BuildTokens(sorted.body)
    /\ phase' = "serialised"
    /\ UNCHANGED <<doc, verr, sorted, resorted, pipeVars, restVars>>

\* hclwrite.ParseConfig(bytes1) and SortHCLFile of the result
Resort ==
    /\ phase = "serialised"
    /\ ParseTokens(bytes1).ok
    /\ resorted' = SortHCLFile(File(ParseTokens(bytes1).body))
    /\ phase' = "resorted"
    /\ UNCHANGED <<doc, verr, sorted, bytes1, pipeVars, restVars>>

SortNext == Validate \/ Sort \/ Serialise \/ Resort

SortSpec == SortInit /\ [][SortNext]_vars

(***************************************************************************)
(* Properties of SortHCLFile (SortSpec).                                   *)
(***************************************************************************)
Sorted == phase \in {"sorted", "serialised", "resorted"}

\* the rank of a block keyword, as the specification tabulates it
RankOf(kw) ==
    CASE kw = "terraform" -> 1
      [] kw = "provider" -> 2
      [] kw = "variable" -> 3
      [] kw = "locals" -> 4
      [] kw = "data" -> 5
      [] kw \in {"resource", "Resource"} -> 6
      [] kw = "module" -> 7
      [] kw = "output" -> 8
      [] kw \in {"backend", "Backend"} -> 9
      [] OTHER -> 10

\* a <= b in the lexicographic order of label sequences
RECURSIVE LexLeq(_, _)
LexLeq(a, b) ==
    \/ a = <<>>
    \/ /\ b # <<>>
       /\ \/ StrLess(Head(a), Head(b))
          \/ Head(a) = Head(b) /\ LexLeq(Tail(a), Tail(b))

SiblingsOrdered(bs) ==
    \A i, j \in DOMAIN bs :
        i < j => /\ RankOf(bs[i].type) <= RankOf(bs[j].type)
                 /\ RankOf(bs[i].type) = RankOf(bs[j].type) => LexLeq(bs[i].labels, bs[j].labels)

RECURSIVE OrderedDeep(_)
OrderedDeep(body) ==
    /\ SiblingsOrdered(Blocks(body))
    /\ \A i \in DOMAIN body : IsBlock(body[i]) => OrderedDeep(body[i].body)

\* the bodies of the blocks at depth d of a body (d = 1: its own blocks)
RECURSIVE BodiesAt(_, _)
BodiesAt(body, d) ==
    LET bs == Blocks(body) IN
    IF d = 1 THEN {bs[i].body : i \in DOMAIN bs}
    ELSE UNION {BodiesAt(bs[i].body, d - 1) : i \in DOMAIN bs}

\* C1: in the output of SortHCLFile every sibling list of blocks, at the top
\* level and inside every block at every depth, is in non-decreasing order
\* of type rank, and blocks of equal rank are in non-decreasing
\* lexicographic order of their labels.
C1_BlocksOrdered == Sorted => OrderedDeep(sorted.body)

\* a document sorted whose top level and whose blocks two levels down were
\* both out of order
C1_Witness ==
    /\ phase = "sorted"
    /\ ~SiblingsOrdered(Blocks(doc.body))
    /\ \E b \in BodiesAt(doc.body, 2) : ~SiblingsOrdered(Blocks(b))
    /\ \E b \in BodiesAt(doc.body, 1) : ~SiblingsOrdered(Blocks(b))

AttrSeq(body) == LET as == Attributes(body) IN [i \in DOMAIN as |-> as[i].name]

\* for_each first if present, the other names strictly ascending
AttrsCanonical(body) ==
    LET names == AttrSeq(body)
        others == SelectSeq(names, LAMBDA n : n # "for_each")
    IN /\ (\E i \in DOMAIN names : names[i] = "for_each") => names[1] = "for_each"
       /\ \A i, j \in DOMAIN others : i < j => StrLess(others[i], others[j])

RECURSIVE AttrsCanonicalDeep(_)
AttrsCanonicalDeep(body) ==
    \A i \in DOMAIN body :
        IsBlock(body[i]) => AttrsCanonical(body[i].body) /\ AttrsCanonicalDeep(body[i].body)

\* C2: after canonicalization, in every block at every nesting depth, an
\* attribute named for_each, if present, is the first attribute and all
\* other attributes follow in strictly ascending name order.
C2_AttributesOrdered == Sorted => AttrsCanonicalDeep(sorted.body)

\* a block two levels down that held for_each behind another attribute is
\* sorted, and for_each is still there
C2_Witness ==
    /\ phase = "sorted"
    /\ \E b \in BodiesAt(doc.body, 2) : "for_each" \in AttrNames(b) /\ ~AttrsCanonical(b)
    /\ \E b \in BodiesAt(sorted.body, 2) : {"for_each", "a", "z"} \subseteq AttrNames(b)

\* the blocks of a body as a multiset: type, labels, attribute name to
\* expression, and the multiset of the children
RECURSIVE BlockBag(_)
BlockBag(body) ==
    LET bs == Blocks(body)
        canon == [i \in DOMAIN bs |->
                    [type |-> bs[i].type, labels |-> bs[i].labels,
                     attrs |-> {<<a.name, a.expr>> : a \in {bs[i].body[h] : h \in {g \in DOMAIN bs[i].body : IsAttr(bs[i].body[g])}}},
                     children |-> BlockBag(bs[i].body)]]
        elems == {canon[i] : i \in DOMAIN bs}
    IN {<<c, Cardinality({i \in DOMAIN bs : canon[i] = c})>> : c \in elems}

\* C3: for every document that passes ValidateRequiredBlockLabels,
\* SortHCLFile changes only order: the multiset of blocks of the output
\* equals that of the input.
C3_BlocksPreserved ==
    (Sorted /\ ~doc.nil /\ verr = NoError) => BlockBag(sorted.body) = BlockBag(doc.body)

TopAttrs(body) == {<<body[i].name, body[i].expr>> : i \in {j \in DOMAIN body : IsAttr(body[j])}}

\* C4: every top-level attribute of the input of SortHCLFile (name and
\* expression) is present in the output.
C4_TopLevelAttributesKept == (Sorted /\ ~doc.nil) => TopAttrs(doc.body) \subseteq TopAttrs(sorted.body)

\* C5: canonicalizing the serialised and re-parsed result of a
\* canonicalization yields the same block and attribute order again.
C5_Idempotent == phase = "resorted" => resorted = sorted

\* the round trip done on a document the first canonicalization reordered
\* at the top level and two levels down
C5_Witness ==
    /\ phase = "resorted"
    /\ ~SiblingsOrdered(Blocks(doc.body))
    /\ \E b \in BodiesAt(doc.body, 2) : ~SiblingsOrdered(Blocks(b)) /\ ~AttrsCanonical(b)

(***************************************************************************)
(* ValidateSpec: ValidateRequiredBlockLabels applied to documents whose    *)
(* top-level blocks have every keyword with 0..MaxLabels labels, and       *)
(* terraform blocks with nested backend blocks.                            *)
(***************************************************************************)
Labels(n) == [i \in 1..n |-> "a"]

ValidateItems ==
    {Blk(kw, Labels(n), <<>>) : kw \in Keywords, n \in 0..MaxLabels}
    \cup {Blk("terraform", Labels(m), <<Attr("a", "1"), Blk("backend", Labels(n), <<>>)>>) :
            m \in 0..1, n \in 0..MaxLabels}
    \cup { Blk("terraform", <<>>, <<Blk("backend", <<"a">>, <<>>), Blk("backend", <<>>, <<>>)>>),
           Blk("terraform", <<>>, <<Blk("Backend", <<>>, <<>>)>>),
           Blk("resource", <<"a", "a">>, <<Blk("backend", <<>>, <<>>)>>) }

ValidateInit ==
    /\ MoreIdle
    /\ \/ doc = NilFile
       \/ \E m \in 0..MaxBlocks : \E b \in [1..m -> ValidateItems] : doc = File(b)
    /\ phase = "input"
    /\ verr = NoError
    /\ sorted = NilFile
    /\ bytes1 = <<>>
    /\ resorted = NilFile
    /\ PipelineIdle
    /\ BatchIdle
    /\ FormatIdle

ValidateNext == Validate

ValidateSpec == ValidateInit /\ [][ValidateNext]_vars

Validated == phase = "validated" /\ ~doc.nil

\* the label count the rules fix for a keyword (<<>>: none fixed)
RequiredLabels(kw) ==
    CASE kw \in {"resource", "data"} -> <<2>>
      [] kw \in {"module", "provider", "variable", "output"} -> <<1>>
      [] kw \in {"locals", "terraform"} -> <<0>>
      [] OTHER -> <<>>

BreaksLabelRule(b) == RequiredLabels(b.type) # <<>> /\ <<Len(b.labels)>> # RequiredLabels(b.type)

BadInnerBackend(b) ==
    /\ b.type = "terraform"
    /\ \E i \in DOMAIN b.body :
          IsBlock(b.body[i]) /\ b.body[i].type = "backend" /\ Len(b.body[i].labels) # 1

\* a top-level block that fails some rule of the validator
FailsValidation(b) == BreaksLabelRule(b) \/ b.type = "backend" \/ BadInnerBackend(b)

NamesBlock(err, b) == err.type = b.type /\ err.got = <<Len(b.labels)>>

\* C7 as stated: whenever some top-level block breaks its label-count rule
\* the result is a ValidationError whose message names a block type and an
\* actual label count.
C7_AsStated ==
    Validated =>
        LET bs == Blocks(doc.body)
            breaks == {i \in DOMAIN bs : BreaksLabelRule(bs[i])}
        IN breaks # {} =>
              /\ verr.kind = "ValidationError"
              /\ verr.type # ""
              /\ verr.got # <<>>

\* C7 (amended): whenever some top-level block breaks its label-count rule
\* the result is a ValidationError, and when the first block in document
\* order that fails validation breaks a label-count rule, the message names
\* the type and the actual label count of that block.
C7_LabelCountError ==
    Validated =>
        LET bs == Blocks(doc.body)
            breaks == {i \in DOMAIN bs : BreaksLabelRule(bs[i])}
            fails == {i \in DOMAIN bs : FailsValidation(bs[i])}
        IN /\ breaks # {} => verr.kind = "ValidationError"
           /\ \A i \in breaks : (\A j \in fails : i <= j) => NamesBlock(verr, bs[i])

\* a resource block with one label, behind a block that passes, is reported
C7_Witness ==
    /\ Validated
    /\ Len(doc.body) = 2
    /\ ~FailsValidation(doc.body[1])
    /\ doc.body[2].type = "resource" /\ Len(doc.body[2].labels) = 1
    /\ verr = ValidationError("must have exactly 2 labels", "resource", <<1>>)

\* C8: a backend block at the top level always makes validation fail,
\* whatever its label count; a backend block nested directly under a
\* terraform block is accepted when it has exactly one label and rejected
\* when it has any other number of labels.
C8_BackendPlacement ==
    Validated =>
        LET bs == Blocks(doc.body) IN
        /\ (\E i \in DOMAIN bs : bs[i].type = "backend") => verr.kind = "ValidationError"
        /\ (\E i \in DOMAIN bs : BadInnerBackend(bs[i])) => verr.kind = "ValidationError"
        /\ (\A i \in DOMAIN bs : ~BreaksLabelRule(bs[i]) /\ bs[i].type # "backend" /\ ~BadInnerBackend(bs[i]))
              => verr = NoError

\* a terraform block holding a backend block with one label is accepted
C8_Witness ==
    /\ Validated
    /\ \E i \in DOMAIN doc.body :
          /\ doc.body[i].type = "terraform"
          /\ \E h \in DOMAIN doc.body[i].body :
                IsBlock(doc.body[i].body[h]) /\ doc.body[i].body[h].type = "backend"
                /\ Len(doc.body[i].body[h].labels) = 1
    /\ verr = NoError

\* the label count fixed by a type tag
TagLabels(tag) ==
    CASE tag \in {"resource", "data"} -> <<2>>
      [] tag \in {"module", "provider", "variable", "output"} -> <<1>>
      [] tag \in {"locals", "terraform"} -> <<0>>
      [] OTHER -> <<>>

\* C9: once a document has passed validation, the label count of every
\* top-level block is the one fixed by its type tag, the tag being derived
\* from the keyword case-insensitively, and no top-level block has the
\* backend tag.
C9_LabelsFixedByTag ==
    (Validated /\ verr = NoError) =>
        \A i \in DOMAIN doc.body :
            IsBlock(doc.body[i]) =>
                LET tag == getBlockType(doc.body[i].type) IN
                /\ tag # "backend"
                /\ TagLabels(tag) # <<>> => <<Len(doc.body[i].labels)>> = TagLabels(tag)

(***************************************************************************)
(* Spec: processFile on one file, MaxRuns times in an unchanged            *)
(* environment.                                                            *)
(***************************************************************************)
\* the items of the root body of a file on disk
FileItems ==
    { Attr("a", "1"),
      Blk("resource", <<"a", "b">>, <<Attr("b", "2"), Attr("a", "1")>>),
      Blk("Resource", <<"a", "b">>, <<>>),
      Blk("resource", <<"a">>, <<>>),
      Blk("variable", <<"a">>, <<>>),
      Blk("backend", <<"a">>, <<>>),
      Blk("Backend", <<"a">>, <<>>),
      Blk("terraform", <<>>, <<Blk("backend", <<"a">>, <<>>)>>) }

\* token sequences that are no document
BadTokens == { <<TClose>>, <<TOpen("variable", <<"a">>)>>, <<TAttr("a", "1"), TAttr("a", "2")>> }

Init ==
    /\ MoreIdle
    /\ SortIdle
    /\ BatchIdle
    /\ FormatIdle
    /\ \E lay \in {"raw", "fmt"} :
          \/ \E m \in 0..MaxFileItems : \E b \in [1..m -> FileItems] :
                UniqueAttrs(b) /\ disk = Text(lay, BuildTokens(b))
          \/ \E t \in BadTokens : disk = Text(lay, t)
    /\ disk0 = disk
    /\ tmp = NoFile
    /\ cfg \in [DryRun : BOOLEAN, Validate : BOOLEAN]
    /\ tf \in {"ok", "missing", "rejects"}
    /\ fs \in {"ok", "unreadable", "tmp_write_fails", "rename_fails"}
    /\ pc = "start"
    /\ run = 1
    /\ ret = Running
    /\ steps = <<>>
    /\ prev = [ret |-> Running, steps |-> <<>>, formatted |-> EmptyText]
    /\ origContent = EmptyText
    /\ parsed = NilFile
    /\ hclFile = NilFile
    /\ sortedFile = NilFile
    /\ formatted = EmptyText

Next ==
    \/ ReadFile \/ Parse \/ ValidateLabels \/ Canonicalize \/ Format \/ Compare
    \/ WriteTmp \/ Rename \/ NextRun

Spec == Init /\ [][Next]_vars

Has(seq, x) == \E i \in 1..Len(seq) : seq[i] = x

IsPrefix(a, b) == Len(a) <= Len(b) /\ \A i \in 1..Len(a) : a[i] = b[i]

\* the call before this one rewrote the file: it ran in write mode, renamed
\* the temporary file over filePath and returned nil
Rewrote == run = 2 /\ prev.ret = ReturnedNil /\ Has(prev.steps, "rename")

PipelineOrder ==
    <<"read", "parse", "validate", "canonicalize", "format", "compare", "write", "rename">>

\* the content does not parse, or it parses and ValidateRequiredBlockLabels
\* returns an error
Rejected(content) ==
    LET r == ParseTokens(content.toks) IN
    ~r.ok \/ ValidateRequiredBlockLabels(File(r.body)) # NoError

\* C10: the steps a call of processFile has run are always an initial part
\* of read, parse, validate, canonicalize, format, compare, write, rename;
\* and while the file on disk fails to parse or fails validation, no call
\* has reached canonicalization, the file is the one the tool was given and
\* no temporary file was written.
C10_PipelineOrder ==
    /\ IsPrefix(steps, PipelineOrder)
    /\ Rejected(disk) =>
          /\ ~Has(steps, "canonicalize")
          /\ disk = disk0
          /\ tmp = NoFile
          /\ pc = "done" /\ fs # "unreadable" => ret.kind = "CLIError"

C10_Witness ==
    /\ pc = "done"
    /\ Rejected(disk)
    /\ steps = <<"read", "parse", "validate">>
    /\ ret = CLIError("validation error")

\* C11: whenever a call of processFile has compared its formatted output with
\* the original content and the two are byte-equal, the call returns
\* NoChangesError and has written nothing, also when both are empty.
C11_NoChangesReported ==
    (pc = "done" /\ Has(steps, "compare") /\ formatted = origContent) =>
        /\ ret = NoChangesError
        /\ ~Has(steps, "write")

\* C15: with --dry-run or --validate set, at every point of every call of
\* processFile the file holds the content it had before the run and no
\* '<file>.tmp' exists, whether or not the file needs an update.
C15_NoDiskChange ==
    (cfg.DryRun \/ cfg.Validate) =>
        /\ disk = disk0
        /\ tmp = NoFile
        /\ ~Has(steps, "write") /\ ~Has(steps, "rename")

\* a call under one of the two flags has found that the file needs an update
C15_Witness ==
    /\ cfg.DryRun \/ cfg.Validate
    /\ pc = "done"
    /\ Has(steps, "compare")
    /\ formatted # EmptyText
    /\ formatted # origContent

(***************************************************************************)
(* processFile as one call: what it can return and leave on disk, given    *)
(* the content of the file, its fault, the flags and terraform.            *)
(***************************************************************************)
Outcome(r, d, t) == [ret |-> r, disk |-> d, tmp |-> t]

\* from the compare on: Step 4 and Step 5
afterFormat(content, fault, config, r) ==
    IF r.err # Nil THEN {Outcome(CLIError("sorting/formatting error"), content, NoFile)}
    ELSE LET after == AfterCompare(content, r.text, config) IN
    IF after # "write" THEN {Outcome(ReturnOf(after), content, NoFile)}
    ELSE IF fault = "tmp_write_fails"
    THEN {Outcome(CLIError("failed to write temp file"), content, t) : t \in {NoFile, PartialFile}}
    ELSE IF fault = "rename_fails"
    THEN {Outcome(CLIError("failed to replace original file"), content, r.text)}
    ELSE {Outcome(ReturnedNil, r.text, NoFile)}

\* Step 3, given h, the result of hclwrite.ParseConfig(origContent)
afterParseConfig(content, fault, config, terraform, h) ==
    IF ~h.ok THEN {Outcome(CLIError("failed to parse file as HCL"), content, NoFile)}
    ELSE UNION { UNION { afterFormat(content, fault, config, r) :
                            r \in {SortAndFormatHCLFile(sf, terraform)} } :
                    sf \in {SortHCLFile(File(h.body))} }

\* from the validation on, given p, the result of ParseHCLFile(filePath)
afterParse(content, fault, config, terraform, p) ==
    IF p.err = "HCLParseError" THEN {Outcome(CLIError("syntax error"), content, NoFile)}
    ELSE IF p.err # "" THEN {Outcome(CLIError("parsing error"), content, NoFile)}
    ELSE IF ValidateRequiredBlockLabels(p.file) # NoError
    THEN {Outcome(CLIError("validation error"), content, NoFile)}
    ELSE UNION { afterParseConfig(content, fault, config, terraform, h) :
                    h \in {ParseTokens(content.toks)} }

processFile(content, fault, config, terraform) ==
    IF fault = "unreadable" \/ content = NoFile
    THEN {Outcome(CLIError("failed to read file"), content, NoFile)}
    ELSE UNION { afterParse(content, fault, config, terraform, p) :
                    p \in {ParseHCLFile(fault, content)} }

\* the steps of Spec and processFile as one call agree on the first call
StepsAgreeWithProcessFile ==
    (pc = "done" /\ run = 1) => Outcome(ret, disk, tmp) \in processFile(disk0, fs, cfg, tf)

(***************************************************************************)
(* BatchSpec: cliutil.runMainLogic.                                        *)
(***************************************************************************)
MaxFiles == 3      \* files under config.Root

\* the contents of the files of a run: one already canonical, one that needs
\* an update, one that fails validation, an empty one
BatchContents ==
    { Text("fmt", BuildTokens(<<Blk("variable", <<"a">>, <<>>)>>)),
      Text("raw", BuildTokens(<<Blk("resource", <<"a", "b">>, <<Attr("b", "2"), Attr("a", "1")>>)>>)),
      Text("fmt", BuildTokens(<<Blk("resource", <<"a">>, <<>>)>>)),
      EmptyText }

TreeFile(content, fault) == [content |-> content, tmp |-> NoFile, fault |-> fault]

BatchFiles == { TreeFile(c, f) : c \in BatchContents, f \in {"ok", "unreadable"} }

BatchInit ==
    /\ MoreIdle
    /\ SortIdle
    /\ CallIdle
    /\ FormatIdle
    /\ cfg \in [DryRun : BOOLEAN, Validate : BOOLEAN]
    /\ tf \in {"ok", "missing"}
    /\ root \in {"missing", "dir", "dir_error", "file", "unsupported"}
    /\ \E n \in 0..MaxFiles :
          /\ root \in {"file", "unsupported"} => n = 1
          /\ root \in {"missing", "dir_error"} => n = 0
          /\ tree \in [1..n -> BatchFiles]
    /\ files = <<>>
    /\ idx = 0
    /\ processedCount = 0 /\ errorCount = 0 /\ noChangesCount = 0
    /\ called = <<>>
    /\ outcomes = <<>>
    /\ exitCode = -1
    /\ bpc = "start"

\* os.Stat(config.Root), ValidateDirectoryPath, FindFiles, isSupportedFile,
\* len(files) == 0
Discover ==
    /\ bpc = "start"
    /\ IF root \in {"missing", "dir_error", "unsupported"}
       THEN exitCode' = 1 /\ bpc' = "done" /\ UNCHANGED <<files, idx>>
       ELSE /\ files' = [k \in 1..Len(tree) |-> k]
            /\ IF Len(tree) = 0
               THEN exitCode' = 0 /\ bpc' = "done" /\ UNCHANGED idx
               ELSE idx' = 1 /\ bpc' = "loop" /\ UNCHANGED exitCode
    /\ UNCHANGED <<sortVars, pipeVars, fmtVars, moreVars, root, tree, processedCount, errorCount,
                   noChangesCount, called, outcomes>>

\* a loop that stops at the first file that failed
NextFileStopOnError(k, err, config, n) == IF err.kind = "CLIError" THEN n + 1 ELSE k + 1

\* for _, filePath := range files: the position after the file at k, whose
\* call returned err; the continue under config.Validate goes to the same place
NextFile(k, err, config, n) == k + 1

\* one turn of the loop: processFile on files[idx], and the counters
ProcessNext ==
    /\ bpc = "loop"
    /\ idx <= Len(files)
    /\ LET f == tree[files[idx]] IN
       \E o \in processFile(f.content, f.fault, cfg, tf) :
          /\ tree' = [tree EXCEPT ![files[idx]] = [f EXCEPT !.content = o.disk, !.tmp = o.tmp]]
          /\ called' = Append(called, files[idx])
          /\ outcomes' = Append(outcomes, o.ret)
          /\ noChangesCount' = IF o.ret = NoChangesError THEN noChangesCount + 1 ELSE noChangesCount
          /\ errorCount' = IF o.ret.kind = "CLIError" THEN errorCount + 1 ELSE errorCount
          /\ processedCount' = IF o.ret = ReturnedNil THEN processedCount + 1 ELSE processedCount
          /\ idx' = NextFile(idx, o.ret, cfg, Len(files))
    /\ UNCHANGED <<sortVars, pipeVars, fmtVars, moreVars, root, files, exitCode, bpc>>

\* the status runMainLogic returns after the loop
ExitStatus(errors, config) == IF errors > 0 /\ config.Validate THEN 1 ELSE 0

\* the summary and the return
Summary ==
    /\ bpc = "loop"
    /\ idx > Len(files)
    /\ exitCode' = ExitStatus(errorCount, cfg)
    /\ bpc' = "done"
    /\ UNCHANGED <<sortVars, pipeVars, fmtVars, moreVars, root, tree, files, idx, processedCount,
                   errorCount, noChangesCount, called, outcomes>>

BatchNext == Discover \/ ProcessNext \/ Summary

BatchSpec == BatchInit /\ [][BatchNext]_vars

\* the call on a file failed
Failed(r) == r.kind = "CLIError"

\* C12: when runMainLogic has gone through its files and returned, its
\* status is non-zero if and only if the call of processFile on at least
\* one file failed, whatever the flags.
C12_ExitReflectsFailures ==
    (bpc = "done" /\ files # <<>>) =>
        (exitCode # 0 <=> \E k \in 1..Len(outcomes) : Failed(outcomes[k]))

\* C13: runMainLogic calls processFile on the files in list order, once each:
\* in the loop the calls made are those on the files before the position of
\* the loop, and after the loop they are those on all the files, whatever
\* the calls returned and whatever the flags.
C13_EveryFileOnce ==
    /\ Len(outcomes) = Len(called)
    /\ bpc = "loop" => idx \in 1..(Len(files) + 1) /\ called = SubSeq(files, 1, idx - 1)
    /\ (bpc = "done" /\ files # <<>>) => called = files

\* the run is over, and the call on the first of several files failed
C13_Witness ==
    /\ bpc = "done"
    /\ Len(files) >= 2
    /\ Failed(outcomes[1])
    /\ called = files

\* the content is not what canonicalizing and formatting it gives
NeedsUpdate(content) ==
    LET h == ParseTokens(content.toks) IN
    /\ h.ok
    /\ \E sf \in {SortHCLFile(File(h.body))} :
          SortAndFormatHCLFile(sf, "ok").text # content

\* C14: with --validate set, when runMainLogic has gone through its files
\* and one of them is not already sorted and formatted, the status it
\* returns is non-zero, whatever the other flags.
C14_ValidateExit ==
    (/\ bpc = "done"
     /\ cfg.Validate
     /\ \E k \in 1..Len(called) : NeedsUpdate(tree[called[k]].content)) =>
        exitCode # 0

(***************************************************************************)
(* FormatSpec: one call of sortingutil.SortAndFormatHCLFile, with          *)
(* formattingutil.FormatHCLFile and applyTerraformFmt step by step.        *)
(***************************************************************************)
\* the items of the root body of the file given
FormatItems ==
    { Attr("a", "1"),
      Blk("variable", <<"a">>, <<>>),
      Blk("resource", <<"a", "b">>, <<Attr("b", "2"), Attr("a", "1")>>),
      Blk("Backend", <<"a">>, <<>>),
      Blk("terraform", <<>>, <<Blk("backend", <<"a">>, <<>>)>>) }

FormatInit ==
    /\ MoreIdle
    /\ SortIdle
    /\ PipelineIdle
    /\ BatchIdle
    /\ \/ fdoc = NilFile
       \/ \E m \in 0..MaxFileItems : \E b \in [1..m -> FormatItems] :
             UniqueAttrs(b) /\ fdoc = File(b)
    /\ fenv \in {"ok", "missing", "create_fails", "write_fails", "rejects", "read_fails"}
    /\ fpc = "start"
    /\ fcontent = EmptyText
    /\ ftmp = NoTemp
    /\ fdefers = <<>>
    /\ feffects = <<>>
    /\ ares = Result(EmptyText, Nil)
    /\ ffmt = Result(EmptyText, Nil)
    /\ fres = Result(EmptyText, Nil)

Effect(name) == feffects' = Append(feffects, name)

\* applyTerraformFmt returns r: its deferred calls run next
ApplyReturns(r) == ares' = r /\ fpc' = "deferred"

\* SortAndFormatHCLFile: SortHCLFile(file); FormatHCLFile: the nil test and
\* rawBytes := file.Bytes()
SortAndSerialise ==
    /\ fpc = "start"
    /\ \E sf \in {SortHCLFile(fdoc)} :
          IF sf.nil
          THEN /\ ffmt' = Result(EmptyText, FormattingError(Errorf))
               /\ fpc' = "formatted"
               /\ UNCHANGED fcontent
          ELSE /\ fcontent' = FileBytes(sf)
               /\ fpc' = "apply"
               /\ UNCHANGED ffmt
    /\ UNCHANGED <<sortVars, pipeVars, batchVars, moreVars, fdoc, fenv, ftmp, fdefers, feffects, ares, fres>>

\* applyTerraformFmt: the test for empty content, then checkTerraformAvailable
CheckTerraform ==
    /\ fpc = "apply"
    /\ IF SkipsFormatter(fcontent)
       THEN ApplyReturns(Result(EmptyText, Nil)) /\ UNCHANGED feffects
       ELSE /\ Effect("LookPath")
            /\ IF checkTerraformAvailable(fenv) # Nil
               THEN ApplyReturns(Result(fcontent, checkTerraformAvailable(fenv)))
               ELSE fpc' = "create" /\ UNCHANGED ares
    /\ UNCHANGED <<sortVars, pipeVars, batchVars, moreVars, fdoc, fenv, fcontent, ftmp, fdefers, ffmt, fres>>

\* the calls deferred without the removal
DeferredCloseOnly == <<"Close">>

\* defer os.Remove(tmpFile.Name()); defer tmpFile.Close(): they run last
\* deferred first
Deferred == <<"Close", "Remove">>

\* os.CreateTemp("", "sorttf-*.tf") and the two defer statements
CreateTemp ==
    /\ fpc = "create"
    /\ Effect("CreateTemp")
    /\ IF fenv = "create_fails"
       THEN ApplyReturns(Result(fcontent, FormattingError(Errorf))) /\ UNCHANGED <<ftmp, fdefers>>
       ELSE /\ ftmp' = [exists |-> TRUE, open |-> TRUE, content |-> EmptyText]
            /\ fdefers' = Deferred
            /\ fpc' = "write"
            /\ UNCHANGED ares
    /\ UNCHANGED <<sortVars, pipeVars, batchVars, moreVars, fdoc, fenv, fcontent, ffmt, fres>>

\* tmpFile.WriteString(content), then tmpFile.Close()
WriteTemp ==
    /\ fpc = "write"
    /\ Effect("WriteString")
    /\ IF fenv = "write_fails"
       THEN ApplyReturns(Result(fcontent, FormattingError(Errorf))) /\ UNCHANGED ftmp
       ELSE /\ ftmp' = [ftmp EXCEPT !.content = fcontent, !.open = FALSE]
            /\ fpc' = "exec"
            /\ UNCHANGED ares
    /\ UNCHANGED <<sortVars, pipeVars, batchVars, moreVars, fdoc, fenv, fcontent, fdefers, ffmt, fres>>

\* exec.Command("terraform", "fmt", tmpFile.Name()).CombinedOutput()
RunTerraformFmt ==
    /\ fpc = "exec"
    /\ Effect("terraform fmt")
    /\ IF fenv = "rejects"
       THEN ApplyReturns(Result(fcontent, FormattingError(Errorf))) /\ UNCHANGED ftmp
       ELSE /\ ftmp' = [ftmp EXCEPT !.content = TerraformFmt(ftmp.content)]
            /\ fpc' = "read"
            /\ UNCHANGED ares
    /\ UNCHANGED <<sortVars, pipeVars, batchVars, moreVars, fdoc, fenv, fcontent, fdefers, ffmt, fres>>

\* os.ReadFile(tmpFile.Name())
ReadBack ==
    /\ fpc = "read"
    /\ Effect("ReadFile")
    /\ IF fenv = "read_fails"
       THEN ApplyReturns(Result(fcontent, FormattingError(Errorf)))
       ELSE ApplyReturns(Result(ftmp.content, Nil))
    /\ UNCHANGED <<sortVars, pipeVars, batchVars, moreVars, fdoc, fenv, fcontent, ftmp, fdefers, ffmt, fres>>

\* one deferred call on the temporary file
RunCall(tmpfile, call) ==
    IF call = "Close" THEN [tmpfile EXCEPT !.open = FALSE]
    ELSE [exists |-> FALSE, open |-> FALSE, content |-> EmptyText]

RECURSIVE RunDeferred(_, _)
RunDeferred(tmpfile, defers) ==
    IF defers = <<>> THEN tmpfile
    ELSE RunDeferred(RunCall(tmpfile, Head(defers)), Tail(defers))

\* applyTerraformFmt returns: the deferred calls run, then FormatHCLFile
\* wraps the error, if any
ReturnToFormat ==
    /\ fpc = "deferred"
    /\ ftmp' = RunDeferred(ftmp, fdefers)
    /\ fdefers' = <<>>
    /\ feffects' = feffects \o SelectSeq(fdefers, LAMBDA c : c = "Remove")
    /\ ffmt' = IF ares.err # Nil THEN Result(fcontent, FormattingError(ares.err)) ELSE ares
    /\ fpc' = "formatted"
    /\ UNCHANGED <<sortVars, pipeVars, batchVars, moreVars, fdoc, fenv, fcontent, ares, fres>>

\* FormatHCLFile returns: SortAndFormatHCLFile wraps the error, if any
ReturnToSort ==
    /\ fpc = "formatted"
    /\ fres' = IF ffmt.err # Nil THEN Result(ffmt.text, SortingError(ffmt.err)) ELSE ffmt
    /\ fpc' = "done"
    /\ UNCHANGED <<sortVars, pipeVars, batchVars, moreVars, fdoc, fenv, fcontent, ftmp, fdefers, feffects,
                   ares, ffmt>>

FormatNext ==
    \/ SortAndSerialise \/ CheckTerraform \/ CreateTemp \/ WriteTemp \/ RunTerraformFmt
    \/ ReadBack \/ ReturnToFormat \/ ReturnToSort

FormatSpec == FormatInit /\ [][FormatNext]_vars

\* the steps agree with SortAndFormatHCLFile as one call
StepsAgreeWithSortAndFormat ==
    fpc = "done" => fres = SortAndFormatHCLFile(SortHCLFile(fdoc), fenv)

\* C16: when SortAndFormatHCLFile has returned, if terraform was missing and
\* the serialized text was not empty then the error FormatHCLFile returned
\* and the error SortAndFormatHCLFile returned are both recognised by
\* IsTerraformNotFoundError; if the call failed otherwise, neither is.
C16_ToolNotFoundRecognised ==
    fpc = "done" =>
        /\ (fenv = "missing" /\ fcontent # EmptyText) =>
              IsTerraformNotFoundError(ffmt.err) /\ IsTerraformNotFoundError(fres.err)
        /\ (fenv # "missing" /\ fres.err # Nil) =>
              ~IsTerraformNotFoundError(ffmt.err) /\ ~IsTerraformNotFoundError(fres.err)

\* the file has no blocks
NoBlocks(file) == file.nil \/ Blocks(file.body) = <<>>

\* C17: for a nil file or a file without blocks, SortAndFormatHCLFile makes
\* no call outside the process (no lookup of terraform, no temporary file,
\* no terraform fmt) and returns the empty string and no error, whatever
\* terraform is.
C17_EmptyDocument ==
    NoBlocks(fdoc) =>
        /\ feffects = <<>>
        /\ fpc = "done" => fres = Result(EmptyText, Nil)

\* the call on a file without blocks has returned where terraform is missing
C17_Witness ==
    /\ NoBlocks(fdoc)
    /\ fenv = "missing"
    /\ fpc = "done"

\* C18: once applyTerraformFmt has returned, on every path, the temporary
\* file it created does not exist and is not open.
C18_TempFileRemoved ==
    fpc \in {"formatted", "done"} => ~ftmp.exists /\ ~ftmp.open

\* applyTerraformFmt has returned after terraform fmt failed on the
\* temporary file it wrote
C18_Witness ==
    /\ fpc = "done"
    /\ fenv = "rejects"
    /\ Has(feffects, "terraform fmt")
    /\ Has(feffects, "Remove")

\* the comments of a body, each with the attribute or block it is attached to
RECURSIVE CommentsOf(_)
CommentsOf(body) ==
    UNION { LET it == body[h]
                own == IF it.comment = "" THEN {}
                       ELSE {[owner |-> IF IsAttr(it) THEN it.name ELSE it.type,
                              labels |-> IF IsAttr(it) THEN <<>> ELSE it.labels,
                              comment |-> it.comment]}
            IN IF IsAttr(it) THEN own ELSE own \cup CommentsOf(it.body)
          : h \in DOMAIN body }

\* C19: every comment attached to an attribute or a block of the document
\* given to SortHCLFile is in its output, attached to the same attribute or
\* block.
C19_CommentsKept ==
    phase \in {"sorted", "serialised", "resorted"} =>
        CommentsOf(doc.body) \subseteq CommentsOf(sorted.body)

\* the blocks of a sibling list that tie: type rank r and labels l
TieClass(bs, r, l) == SelectSeq(bs, LAMBDA b : RankOf(b.type) = r /\ b.labels = l)

\* what a block is, whatever the order inside it
Fingerprint(b) == BlockBag(<<b>>)

\* every class of ties of the input siblings is, in the output siblings, the
\* same blocks in the same order; and so inside each of them
RECURSIVE StableDeep(_, _)
StableDeep(inBlocks, outBlocks) ==
    \A r \in 1..10 : \A l \in {inBlocks[h].labels : h \in DOMAIN inBlocks} :
        LET ic == TieClass(inBlocks, r, l)
            oc == TieClass(outBlocks, r, l)
        IN /\ Len(ic) = Len(oc)
           /\ \A h \in DOMAIN ic :
                 /\ Fingerprint(ic[h]) = Fingerprint(oc[h])
                 /\ StableDeep(Blocks(ic[h].body), Blocks(oc[h].body))

\* the top-level blocks SortHCLFile keeps: those not tagged backend
KeptBlocks(body) == SelectSeq(Blocks(body), LAMBDA b : RankOf(b.type) # 9)

\* sibling blocks that tie and differ
HasTie(bs) ==
    \E h, j \in DOMAIN bs :
        /\ h < j
        /\ RankOf(bs[h].type) = RankOf(bs[j].type)
        /\ bs[h].labels = bs[j].labels
        /\ bs[h] # bs[j]

\* C20: in the output of SortHCLFile, sibling blocks of equal type rank and
\* equal labels stand in the relative order they had in the input, at the
\* top level and inside every block.
C20_StableSort ==
    (Sorted /\ ~doc.nil) => StableDeep(KeptBlocks(doc.body), Blocks(sorted.body))

\* a document sorted in which blocks inside a block tie and differ, and come
\* after a sibling they sort before
C20_Witness ==
    /\ phase = "sorted"
    /\ \E b \in BodiesAt(doc.body, 1) : HasTie(Blocks(b)) /\ ~SiblingsOrdered(Blocks(b))

(***************************************************************************)
(* LabelSpec: sortingutil.compareLabels on the pairs of three label        *)
(* sequences.                                                              *)
(***************************************************************************)
MaxLabelLen == 2   \* labels of a sequence compared

\* the labels compared: one a prefix of another, one in capitals
LabelAlphabet == {"a", "ab", "B"}

LabelSeqs == UNION {[1..n -> LabelAlphabet] : n \in 0..MaxLabelLen}

LabelInit ==
    /\ SortIdle /\ PipelineIdle /\ BatchIdle /\ FormatIdle
    /\ pfs = <<>> /\ pfs0 = <<>> /\ wpc = <<>> /\ wlocal = <<>>
    /\ \E a \in LabelSeqs, b \in LabelSeqs, c \in LabelSeqs : args = <<a, b, c>>
    /\ result = [ab |-> FALSE, ba |-> FALSE, bc |-> FALSE, ac |-> FALSE, aa |-> FALSE]
    /\ fnpc = "input"

\* compareLabels called on the pairs of the three sequences
CompareLabels ==
    /\ fnpc = "input"
    /\ result' = [ab |-> compareLabels(args[1], args[2]),
                  ba |-> compareLabels(args[2], args[1]),
                  bc |-> compareLabels(args[2], args[3]),
                  ac |-> compareLabels(args[1], args[3]),
                  aa |-> compareLabels(args[1], args[1])]
    /\ fnpc' = "returned"
    /\ UNCHANGED <<sortVars, pipeVars, batchVars, fmtVars, parVars, args>>

LabelNext == CompareLabels

LabelSpec == LabelInit /\ [][LabelNext]_vars

\* a is a strict prefix of b
StrictPrefix(a, b) == Len(a) < Len(b) /\ SubSeq(b, 1, Len(a)) = a

\* a < b in the strict lexicographic order of label sequences
LexLess(a, b) == a # b /\ LexLeq(a, b)

\* C21: compareLabels is the strict lexicographic order of label sequences
\* under the ordering of strings: it answers as that order does, a strict
\* prefix is less than the longer sequence, no sequence is less than itself,
\* a < b and b < c give a < c, and of two different sequences exactly one is
\* less than the other.
C21_StrictLexOrder ==
    fnpc = "returned" =>
        LET a == args[1]
            b == args[2]
        IN /\ result.ab = LexLess(a, b)
           /\ StrictPrefix(a, b) => result.ab
           /\ ~result.aa
           /\ (result.ab /\ result.bc) => result.ac
           /\ a # b => (result.ab # result.ba)

\* compared: a strict prefix with a longer sequence, and that with a sequence
\* that differs from it in its first label
C21_Witness ==
    /\ fnpc = "returned"
    /\ StrictPrefix(args[1], args[2])
    /\ args[1] # <<>>
    /\ args[3] # <<>> /\ args[3][1] # args[2][1]
    /\ result.ab /\ result.bc /\ result.ac

(***************************************************************************)
(* Nested blocks by keyword (SortSpec).                                    *)
(***************************************************************************)
\* the blocks of one keyword stand together, their labels in order
GroupedByKeyword(bs) ==
    \A h, j \in DOMAIN bs :
        (h < j /\ bs[h].type = bs[j].type) =>
            /\ \A g \in h..j : bs[g].type = bs[h].type
            /\ LexLeq(bs[h].labels, bs[j].labels)

\* C22: inside every block of the output of SortHCLFile, at every depth, the
\* nested blocks that share a keyword form one contiguous group, and within
\* the group the label sequences are in non-decreasing lexicographic order.
C22_NestedGroupedByKeyword ==
    (Sorted /\ ~doc.nil) =>
        \A d \in 1..MaxDepth : \A b \in BodiesAt(sorted.body, d) :
            GroupedByKeyword(Blocks(b))

(***************************************************************************)
(* The blocks SortHCLFile leaves out (SortSpec).                           *)
(***************************************************************************)
\* the keyword is backend in some capitalisation
IsBackendKeyword(kw) == ToLower(Bytes(kw)) = Bytes("backend")

\* the backend blocks of a body, at every depth below the top level
RECURSIVE NestedBackends(_)
NestedBackends(body) ==
    LET bs == Blocks(body) IN
    UNION {{<<h>> : h \in {g \in DOMAIN Blocks(bs[i].body) : IsBackendKeyword(Blocks(bs[i].body)[g].type)}}
           \cup {<<h>> \o t : h \in {i}, t \in NestedBackends(bs[i].body)}
           : i \in DOMAIN bs}

\* C27: the top-level blocks of the output of SortHCLFile are, as a multiset
\* and with all they contain, the top-level blocks of the input without
\* those whose keyword is backend in any capitalisation; backend blocks
\* nested inside a block are kept.
C27_DropsTopLevelBackendOnly ==
    (Sorted /\ ~doc.nil) =>
        /\ BlockBag(sorted.body) = BlockBag(KeptBlocks(doc.body))
        /\ Len(Blocks(sorted.body)) =
              Cardinality({h \in DOMAIN Blocks(doc.body) : ~IsBackendKeyword(Blocks(doc.body)[h].type)})
        /\ Cardinality(NestedBackends(sorted.body)) =
              Cardinality(NestedBackends(KeptBlocks(doc.body)))

\* sorted: a document with a top-level Backend block beside a terraform block
\* that holds a backend block; the first is gone and the second is there
C27_Witness ==
    /\ phase = "sorted"
    /\ \E h \in DOMAIN Blocks(doc.body) : Blocks(doc.body)[h].type = "Backend"
    /\ NestedBackends(doc.body) # {}
    /\ Len(Blocks(sorted.body)) = 1
    /\ NestedBackends(sorted.body) # {}

(***************************************************************************)
(* The violation reported (ValidateSpec).                                  *)
(***************************************************************************)
\* err is the error of the rule the top-level block b violates
Reports(err, b) ==
    /\ err.kind = "ValidationError"
    /\ IF BreaksLabelRule(b) \/ (b.type = "backend" /\ Len(b.labels) # 1)
       THEN NamesBlock(err, b)
       ELSE IF b.type = "backend"
       THEN err.rule = "must be inside a terraform block" /\ err.got = <<>>
       ELSE LET inner == Blocks(b.body)
                bad == {h \in DOMAIN inner : inner[h].type = "backend" /\ Len(inner[h].labels) # 1}
            IN /\ err.rule = "inside terraform must have exactly 1 label"
               /\ \E h \in bad : /\ \A g \in bad : h <= g
                                 /\ err.got = <<Len(inner[h].labels)>>

\* C26: ValidateRequiredBlockLabels returns nil exactly when no top-level
\* block violates a rule, and otherwise the error of the violating block
\* that comes first in document order, a nested backend block being checked
\* at the position of the terraform block that holds it.
C26_FirstViolationOnly ==
    Validated =>
        LET bs == Blocks(doc.body)
            fails == {h \in DOMAIN bs : FailsValidation(bs[h])}
        IN /\ (verr = NoError) <=> (fails = {})
           /\ \A h \in fails : (\A g \in fails : h <= g) => Reports(verr, bs[h])

\* validated: a terraform block with a bad nested backend block before a
\* block that breaks its label rule; the error is the nested block's
C26_Witness ==
    /\ Validated
    /\ Len(Blocks(doc.body)) = 2
    /\ BadInnerBackend(Blocks(doc.body)[1]) /\ ~BreaksLabelRule(Blocks(doc.body)[1])
    /\ BreaksLabelRule(Blocks(doc.body)[2])
    /\ verr.rule = "inside terraform must have exactly 1 label"
    /\ ~Reports(verr, Blocks(doc.body)[2])

(***************************************************************************)
(* The replacement of the file (Spec).                                     *)
(***************************************************************************)
\* C30: during and after the first call of processFile the file holds either
\* the content it had before the call or the complete formatted output; it
\* holds the content it had before whenever the call has returned an error;
\* and once the call has returned there is no '<file>.tmp'.
C30_AtomicReplace ==
    run = 1 =>
        /\ disk = disk0 \/ (Has(steps, "rename") /\ disk = formatted)
        /\ (pc = "done" /\ ret \notin {Running, ReturnedNil}) => disk = disk0
        /\ pc = "done" => tmp = NoFile

(***************************************************************************)
(* BlocksSpec: SortBlocksByLabels, then SortBlocksByType on its result,    *)
(* and sortBlocks on the same list.                                        *)
(***************************************************************************)
MaxListLen == 3   \* blocks in a list given to the sort functions

\* the type tags of the blocks of a list: two of the table and one that is
\* not in it, for which the map lookup gives 0
ListTypes == {"resource", "variable", "custom"}

ListLabels == {<<>>, <<"a">>, <<"a", "b">>}

\* the Block values of a list; Block stands for the pointer, different for
\* each element
BlockLists ==
    UNION {{[h \in 1..n |-> [Type |-> ty[h], Labels |-> la[h], Block |-> h]]
               : ty \in [1..n -> ListTypes], la \in [1..n -> ListLabels]}
           : n \in 0..MaxListLen}

BlocksInit ==
    /\ SortIdle /\ PipelineIdle /\ BatchIdle /\ FormatIdle
    /\ pfs = <<>> /\ pfs0 = <<>> /\ wpc = <<>> /\ wlocal = <<>>
    /\ args \in BlockLists
    /\ result = [byLabels |-> <<>>, byType |-> <<>>, combined |-> <<>>]
    /\ fnpc = "input"

\* SortBlocksByLabels(blocks)
SortByLabels ==
    /\ fnpc = "input"
    /\ result' = [result EXCEPT !.byLabels = SortBlocksByLabels(args)]
    /\ fnpc' = "sortedByLabels"
    /\ UNCHANGED <<sortVars, pipeVars, batchVars, fmtVars, parVars, args>>

\* SortBlocksByType on the result, and sortBlocks on a copy of the list
SortByType ==
    /\ fnpc = "sortedByLabels"
    /\ result' = [result EXCEPT !.byType = SortBlocksByType(result.byLabels),
                                !.combined = sortBlocks(args)]
    /\ fnpc' = "sortedByType"
    /\ UNCHANGED <<sortVars, pipeVars, batchVars, fmtVars, parVars, args>>

BlocksNext == SortByLabels \/ SortByType

BlocksSpec == BlocksInit /\ [][BlocksNext]_vars

\* C28: for every list of blocks, SortBlocksByLabels followed by
\* SortBlocksByType gives the same sequence as sortBlocks applied to the
\* list.
C28_TwoSortsEqualCombined ==
    fnpc = "sortedByType" => result.byType = result.combined

\* sorted: a list that each of the two sorts reorders and that holds two
\* blocks of equal type and labels
C28_Witness ==
    /\ fnpc = "sortedByType"
    /\ result.byLabels # args
    /\ result.byType # result.byLabels
    /\ \E h, j \in DOMAIN args :
          h < j /\ args[h].Type = args[j].Type /\ args[h].Labels = args[j].Labels

(***************************************************************************)
(* ParseSpec: parsingutil.ParseHCLFile(path) on every kind of path.  A     *)
(* path is its string, what os.Stat and ioutil.ReadFile find there, and    *)
(* the content of the file if it is one.                                   *)
(***************************************************************************)
Path(name, kind, content) == [name |-> name, kind |-> kind, content |-> content]

\* what can be at a path: nothing, something os.Stat may not look at,
\* something os.Stat fails on otherwise, a directory, a file that cannot be
\* read, a file
PathKinds == {"missing", "noaccess", "staterror", "dir", "unreadable", "file"}

\* validateFilePath: "" for nil, or the error message
validateFilePath(path) ==
    IF path.name = "" THEN "empty path provided"
    ELSE CASE path.kind = "missing" -> "file does not exist"
           [] path.kind = "noaccess" -> "permission denied"
           [] path.kind = "staterror" -> "failed to access file"
           [] path.kind = "dir" -> "path is a directory, expected a file"
           [] OTHER -> ""

\* ParseHCLFile(path): the ParsedFile returned (nil or not, its File, whether
\* its Diags have errors) and the type of the error ("" for nil)
ParseHCLFileAt(path) ==
    LET none == [nil |-> TRUE, file |-> NilFile, diags |-> FALSE, err |-> "ParsingError"] IN
    IF path.name = "" THEN none
    ELSE IF validateFilePath(path) # "" THEN none
    ELSE IF path.kind = "unreadable" THEN none
    ELSE LET r == ParseHCLFile("ok", path.content)
         IN [nil |-> r.file.nil, file |-> r.file, diags |-> r.err = "HCLParseError", err |-> r.err]

ParseInit ==
    /\ SortIdle /\ PipelineIdle /\ BatchIdle /\ FormatIdle
    /\ pfs = <<>> /\ pfs0 = <<>> /\ wpc = <<>> /\ wlocal = <<>>
    /\ \/ args = Path("", "missing", NoFile)
       \/ \E k \in PathKinds \ {"file"} : args = Path("main.tf", k, NoFile)
       \/ \E lay \in {"raw", "fmt"} :
             \/ \E m \in 0..MaxFileItems : \E b \in [1..m -> FileItems] :
                   UniqueAttrs(b) /\ args = Path("main.tf", "file", Text(lay, BuildTokens(b)))
             \/ \E t \in BadTokens : args = Path("main.tf", "file", Text(lay, t))
    /\ result = [nil |-> TRUE, file |-> NilFile, diags |-> FALSE, err |-> ""]
    /\ fnpc = "input"

\* parsingutil.ParseHCLFile(path)
ParseFile ==
    /\ fnpc = "input"
    /\ result' = ParseHCLFileAt(args)
    /\ fnpc' = "parsed"
    /\ UNCHANGED <<sortVars, pipeVars, batchVars, fmtVars, parVars, args>>

ParseNext == ParseFile

ParseSpec == ParseInit /\ [][ParseNext]_vars

\* the file at the path can be read
Readable(path) == path.name # "" /\ path.kind = "file"

\* C23: ParseHCLFile returns a non-nil ParsedFile whose diagnostics have
\* errors, with an HCLParseError, when the file is readable and has syntax
\* errors; a nil ParsedFile, with a ParsingError, exactly when the path is
\* empty, missing, a directory or cannot be read; and a non-nil ParsedFile
\* with a nil error otherwise.
C23_ParseResult ==
    fnpc = "parsed" =>
        LET broken == Readable(args) /\ args.content.toks \in BadTokens IN
        /\ broken => (~result.nil /\ ~result.file.nil /\ result.diags /\ result.err = "HCLParseError")
        /\ result.nil <=> ~Readable(args)
        /\ result.nil <=> result.err = "ParsingError"
        /\ (Readable(args) /\ ~broken) => (~result.nil /\ ~result.diags /\ result.err = "")

\* parsed: a readable file whose tokens are no document
C23_Witness ==
    /\ fnpc = "parsed"
    /\ args.kind = "file"
    /\ args.content.toks \in BadTokens
    /\ ~result.nil
    /\ result.err = "HCLParseError"

(***************************************************************************)
(* FindSpec: fileutil.FindFiles(root, false) and FindFiles(root, true) on  *)
(* a directory without subdirectories.  An entry is its name and whether   *)
(* it is a regular file or a symbolic link; a path is <<root, name>>.      *)
(***************************************************************************)
MaxEntries == 3   \* entries of the directory

Entry(name, type) == [name |-> name, type |-> type]

\* the entries a directory can hold
DirEntries ==
    {Entry(n, "regular") : n \in {"main.tf", "MAIN.TF", "a.hcl", "notes.txt",
                                   ".terraform.lock.hcl", ".terraform.tf"}}
    \cup {Entry("link.tf", "symlink")}

\* the entries in the order os.ReadDir and filepath.Walk give them: by name
RECURSIVE ByName(_)
ByName(entries) ==
    IF entries = {} THEN <<>>
    ELSE LET first == CHOOSE e \in entries : \A o \in entries \ {e} : StrLess(e.name, o.name)
         IN <<first>> \o ByName(entries \ {first})

\* IsValidFile(path, info) for what is not a directory
IsValidFile(name) ==
    IF HasPrefix(Bytes(name), Bytes(".terraform")) \/ name = ".terraform.lock.hcl" THEN FALSE
    ELSE LET lower == ToLower(Bytes(name))
         IN HasSuffix(lower, Bytes(".tf")) \/ HasSuffix(lower, Bytes(".hcl"))

\* ShouldSkipDir(path, info) for a directory
ShouldSkipDir(name) == name = ".terraform"

\* the loop over the entries of os.ReadDir(root)
RECURSIVE ReadDirLoop(_, _, _)
ReadDirLoop(rootName, entries, found) ==
    IF entries = <<>> THEN found
    ELSE LET entry == Head(entries)
             name == ToLower(Bytes(entry.name))
             take == /\ entry.type = "regular"
                     /\ HasSuffix(name, Bytes(".tf")) \/ HasSuffix(name, Bytes(".hcl"))
                     /\ entry.name # ".terraform.lock.hcl"
         IN ReadDirLoop(rootName, Tail(entries),
                        IF take THEN Append(found, <<rootName, entry.name>>) ELSE found)

\* filepath.Walk below the root: the function called on every entry
RECURSIVE WalkLoop(_, _, _)
WalkLoop(rootName, entries, found) ==
    IF entries = <<>> THEN found
    ELSE LET entry == Head(entries)
         IN WalkLoop(rootName, Tail(entries),
                     IF IsValidFile(entry.name) THEN Append(found, <<rootName, entry.name>>) ELSE found)

\* FindFiles(root, recursive) on an existing directory: the files returned
FindFiles(dir, recursive) ==
    IF recursive
    THEN IF ShouldSkipDir(dir.root) THEN <<>> ELSE WalkLoop(dir.root, ByName(dir.entries), <<>>)
    ELSE ReadDirLoop(dir.root, ByName(dir.entries), <<>>)

FindInit ==
    /\ SortIdle /\ PipelineIdle /\ BatchIdle /\ FormatIdle
    /\ pfs = <<>> /\ pfs0 = <<>> /\ wpc = <<>> /\ wlocal = <<>>
    /\ \E r \in {"dir", ".terraform"}, es \in SUBSET DirEntries :
          /\ Cardinality(es) <= MaxEntries
          /\ args = [root |-> r, entries |-> es]
    /\ result = [flat |-> <<>>, walk |-> <<>>]
    /\ fnpc = "input"

\* FindFiles(root, false)
FindFlat ==
    /\ fnpc = "input"
    /\ result' = [result EXCEPT !.flat = FindFiles(args, FALSE)]
    /\ fnpc' = "flat"
    /\ UNCHANGED <<sortVars, pipeVars, batchVars, fmtVars, parVars, args>>

\* FindFiles(root, true)
FindRecursive ==
    /\ fnpc = "flat"
    /\ result' = [result EXCEPT !.walk = FindFiles(args, TRUE)]
    /\ fnpc' = "found"
    /\ UNCHANGED <<sortVars, pipeVars, batchVars, fmtVars, parVars, args>>

FindNext == FindFlat \/ FindRecursive

FindSpec == FindInit /\ [][FindNext]_vars

\* the elements of a sequence
Range(seq) == {seq[h] : h \in DOMAIN seq}

\* C29: for a directory without subdirectories, whatever the names of the
\* files in it, FindFiles(root, false) and FindFiles(root, true) return the
\* same set of files.
C29_SameFilesBothWays ==
    fnpc = "found" => Range(result.flat) = Range(result.walk)

(***************************************************************************)
(* CliSpec: cliutil.RunCLIWithWriters(args): parseFlags, and runMainLogic  *)
(* on the Config it gives.                                                 *)
(***************************************************************************)
MaxArgs == 3   \* command line arguments

\* the arguments of a command line: flags that are defined, a help flag in
\* both spellings, a flag that is not defined, the end of the flags, and
\* paths: a directory, nothing, a file of another type, a Terraform file
Arguments == {"--validate", "--dry-run", "--help", "-h", "--bogus", "--",
              "dir", "missing", "notes.txt", "main.tf"}

NoConfig == [DryRun |-> FALSE, Validate |-> FALSE]

\* fs.Parse(args) of package flag: the error ("" for nil, "help" for
\* flag.ErrHelp), the Config the flags have set and fs.Args()
RECURSIVE FlagSetParse(_, _)
FlagSetParse(arguments, config) ==
    IF arguments = <<>> THEN [err |-> "", config |-> config, rest |-> <<>>]
    ELSE LET a == Bytes(Head(arguments)) IN
         IF Len(a) < 2 \/ a[1] # 45 THEN [err |-> "", config |-> config, rest |-> arguments]
         ELSE IF a[2] = 45 /\ Len(a) = 2 THEN [err |-> "", config |-> config, rest |-> Tail(arguments)]
         ELSE LET name == IF a[2] = 45 THEN SubSeq(a, 3, Len(a)) ELSE SubSeq(a, 2, Len(a)) IN
              IF name = <<>> \/ name[1] = 45 \/ name[1] = 61
              THEN [err |-> "bad flag syntax", config |-> config, rest |-> arguments]
              ELSE CASE name = Bytes("dry-run") ->
                            FlagSetParse(Tail(arguments), [config EXCEPT !.DryRun = TRUE])
                     [] name = Bytes("validate") ->
                            FlagSetParse(Tail(arguments), [config EXCEPT !.Validate = TRUE])
                     [] name \in {Bytes("recursive"), Bytes("verbose")} ->
                            FlagSetParse(Tail(arguments), config)
                     [] name \in {Bytes("help"), Bytes("h")} ->
                            [err |-> "help", config |-> config, rest |-> Tail(arguments)]
                     [] OTHER ->
                            [err |-> "flag provided but not defined", config |-> config,
                             rest |-> Tail(arguments)]

\* parseFlags: the Op of the CLIError ("" for nil), the flags and Root
parseFlags(arguments) ==
    LET flags == FlagSetParse(arguments, NoConfig)
        failed(op) == [err |-> op, config |-> NoConfig, Root |-> ""]
    IN IF flags.err = "help" THEN failed("help")
       ELSE IF flags.err # "" THEN failed("parseFlags")
       ELSE IF Len(flags.rest) > 1 THEN failed("parseFlags")
       ELSE [err |-> "", config |-> flags.config,
             Root |-> IF flags.rest = <<>> THEN "." ELSE flags.rest[1]]

\* a RunCLIWithWriters without the case of help
RunCLIWithWritersHelpIsUsage(flags) == IF flags.err # "" THEN 2 ELSE -1

\* RunCLIWithWriters after parseFlags: the status returned, -1 when it goes
\* on to runMainLogic
RunCLIWithWriters(flags) ==
    IF flags.err = "help" THEN 0
    ELSE IF flags.err # "" THEN 2
    ELSE -1

\* isSupportedFile(filePath)
isSupportedFile(filePath) ==
    HasSuffix(Bytes(filePath), Bytes(".tf")) \/ HasSuffix(Bytes(filePath), Bytes(".hcl"))

\* what runMainLogic finds at config.Root: the directories "." and dir, the
\* files main.tf and notes.txt, and nothing at any other path
RootFound(path) ==
    CASE path \in {".", "dir"} -> "dir"
      [] path \in {"main.tf", "notes.txt"} -> IF isSupportedFile(path) THEN "file" ELSE "unsupported"
      [] OTHER -> "missing"

\* the file main.tf
CliFile == TreeFile(Text("raw", BuildTokens(<<Blk("resource", <<"a", "b">>, <<Attr("b", "2"), Attr("a", "1")>>)>>)), "ok")

CliInit ==
    /\ SortIdle /\ CallIdle /\ FormatIdle
    /\ pfs = <<>> /\ pfs0 = <<>> /\ wpc = <<>> /\ wlocal = <<>>
    /\ cfg = NoConfig
    /\ tf = "ok"
    /\ \E n \in 0..MaxArgs : args \in [1..n -> Arguments]
    /\ result = [err |-> "", config |-> NoConfig, Root |-> ""]
    /\ fnpc = "input"
    /\ root = "dir"
    /\ \E n \in 0..1 : tree \in [1..n -> {TreeFile(c, "ok") : c \in BatchContents}]
    /\ files = <<>>
    /\ idx = 0
    /\ processedCount = 0 /\ errorCount = 0 /\ noChangesCount = 0
    /\ called = <<>>
    /\ outcomes = <<>>
    /\ exitCode = -1
    /\ bpc = "cli"

\* RunCLIWithWriters up to the call of runMainLogic
RunCLI ==
    /\ bpc = "cli"
    /\ fnpc = "input"
    /\ \E flags \in {parseFlags(args)} :
          /\ result' = flags
          /\ fnpc' = "parsed"
          /\ exitCode' = RunCLIWithWriters(flags)
          /\ IF flags.err # ""
             THEN bpc' = "done" /\ UNCHANGED <<cfg, root, tree>>
             ELSE /\ bpc' = "start"
                  /\ cfg' = flags.config
                  /\ root' = RootFound(flags.Root)
                  /\ tree' = IF RootFound(flags.Root) \in {"file", "unsupported"} THEN <<CliFile>>
                             ELSE IF RootFound(flags.Root) = "missing" THEN <<>>
                             ELSE tree
    /\ UNCHANGED <<sortVars, fmtVars, parVars, args, files, idx, processedCount, errorCount,
                   noChangesCount, called, outcomes>>
    /\ UNCHANGED <<disk, tmp, tf, fs, pc, run, origContent, parsed, hclFile, sortedFile,
                   formatted, ret, steps, prev, disk0>>

CliNext == RunCLI \/ Discover \/ ProcessNext \/ Summary

CliSpec == CliInit /\ [][CliNext]_vars

\* the defined flags that stand first on the command line
RECURSIVE LeadingFlags(_)
LeadingFlags(arguments) ==
    IF arguments # <<>> /\ Head(arguments) \in {"--validate", "--dry-run"}
    THEN 1 + LeadingFlags(Tail(arguments))
    ELSE 0

\* the command line behind its leading flags
AfterFlags == SubSeq(args, LeadingFlags(args) + 1, Len(args))

HelpRequested == AfterFlags # <<>> /\ Head(AfterFlags) \in {"--help", "-h"}

UnknownFlag == AfterFlags # <<>> /\ Head(AfterFlags) = "--bogus"

\* the positional arguments of a command line without help and unknown flag
Positional == IF AfterFlags # <<>> /\ Head(AfterFlags) = "--" THEN Tail(AfterFlags) ELSE AfterFlags

UsageError == ~HelpRequested /\ (UnknownFlag \/ Len(Positional) > 1)

\* the one path given does not exist, or is a file that is no .tf or .hcl
BadRoot ==
    /\ ~HelpRequested /\ ~UsageError
    /\ Len(Positional) = 1
    /\ Positional[1] \notin {"dir", "main.tf"}

\* C24: RunCLIWithWriters returns 0 when help is requested, 2 on an unknown
\* flag and on more than one positional argument, and 1 when the root path
\* does not exist or is a single file of an unsupported type; in all these
\* cases processFile is called on no file.
C24_ExitCodes ==
    bpc = "done" =>
        /\ HelpRequested => (exitCode = 0 /\ called = <<>> /\ files = <<>>)
        /\ UsageError => (exitCode = 2 /\ called = <<>> /\ files = <<>>)
        /\ BadRoot => (exitCode = 1 /\ called = <<>> /\ files = <<>>)

\* returned: a command line with a defined flag and two paths
C24_Witness ==
    /\ bpc = "done"
    /\ Len(args) = 3
    /\ args[1] = "--validate" /\ args[2] = "main.tf" /\ args[3] = "dir"
    /\ exitCode = 2
    /\ called = <<>>

(***************************************************************************)
(* ParSpec: cliutil.processFile run by two workers at once, each on its    *)
(* own file, one action per access to the file system.  The file system    *)
(* maps a path to the text there (NoFile for none).                        *)
(***************************************************************************)
Workers == {1, 2}

\* the file a worker is given
FileOf(w) == IF w = 1 THEN "a.tf" ELSE "b.tf"

\* tmpFile := filePath + ".tmp"
TmpPath(filePath) == IF filePath = "a.tf" THEN "a.tf.tmp" ELSE "b.tf.tmp"

\* the names os.CreateTemp("", "sorttf-*.tf") can make
TempNames == {"sorttf-1.tf", "sorttf-2.tf"}

ParPaths == {FileOf(w) : w \in Workers} \cup {TmpPath(FileOf(w)) : w \in Workers} \cup TempNames

\* an os.CreateTemp that always makes the same name
CreateTempNamesFixed(fsys) == {"sorttf-1.tf"}

\* os.CreateTemp: a name that no file has (the file is opened with O_EXCL)
CreateTempNames(fsys) == {n \in TempNames : fsys[n] = NoFile}

Locals(orig, raw, temp, fmtd, r) ==
    [orig |-> orig, raw |-> raw, temp |-> temp, formatted |-> fmtd, ret |-> r]

ParInit ==
    /\ SortIdle /\ CallIdle /\ BatchIdle /\ FormatIdle
    /\ args = <<>> /\ result = <<>> /\ fnpc = "idle"
    /\ cfg \in [DryRun : BOOLEAN, Validate : BOOLEAN]
    /\ tf \in {"ok", "missing"}
    /\ \E c1 \in BatchContents, c2 \in BatchContents :
          pfs = [q \in ParPaths |-> IF q = "a.tf" THEN c1 ELSE IF q = "b.tf" THEN c2 ELSE NoFile]
    /\ pfs0 = pfs
    /\ wpc = [w \in Workers |-> "start"]
    /\ wlocal = [w \in Workers |-> Locals(EmptyText, EmptyText, "", EmptyText, Running)]

ParUnchanged == UNCHANGED <<sortVars, pipeVars, batchVars, fmtVars, fnVars, pfs0>>

\* the worker returns r
ParReturn(w, r) ==
    /\ wlocal' = [wlocal EXCEPT ![w].ret = r]
    /\ wpc' = [wpc EXCEPT ![w] = "done"]

\* Step 1: ioutil.ReadFile(filePath)
ParReadFile(w) ==
    /\ wpc[w] = "start"
    /\ wlocal' = [wlocal EXCEPT ![w].orig = pfs[FileOf(w)]]
    /\ wpc' = [wpc EXCEPT ![w] = "read"]
    /\ UNCHANGED pfs
    /\ ParUnchanged

\* Step 2 and Step 3 up to the temporary file: ParseHCLFile reads the file
\* again; validation, hclwrite.ParseConfig(origContent), SortHCLFile,
\* file.Bytes() and checkTerraformAvailable touch no file
ParParseAndSort(w) ==
    /\ wpc[w] = "read"
    /\ \E p \in {ParseHCLFile("ok", pfs[FileOf(w)])} :
       \E h \in {ParseTokens(wlocal[w].orig.toks)} :
          IF p.err = "HCLParseError" THEN ParReturn(w, CLIError("syntax error"))
          ELSE IF p.err # "" THEN ParReturn(w, CLIError("parsing error"))
          ELSE IF ValidateRequiredBlockLabels(p.file) # NoError
          THEN ParReturn(w, CLIError("validation error"))
          ELSE IF ~h.ok THEN ParReturn(w, CLIError("failed to parse file as HCL"))
          ELSE \E raw \in {FileBytes(SortHCLFile(File(h.body)))} :
                  IF SkipsFormatter(raw)
                  THEN /\ wlocal' = [wlocal EXCEPT ![w].raw = raw, ![w].formatted = EmptyText]
                       /\ wpc' = [wpc EXCEPT ![w] = "compare"]
                  ELSE IF checkTerraformAvailable(tf) # Nil
                  THEN /\ wlocal' = [wlocal EXCEPT ![w].raw = raw,
                                                   ![w].ret = CLIError("sorting/formatting error")]
                       /\ wpc' = [wpc EXCEPT ![w] = "done"]
                  ELSE /\ wlocal' = [wlocal EXCEPT ![w].raw = raw]
                       /\ wpc' = [wpc EXCEPT ![w] = "create"]
    /\ UNCHANGED pfs
    /\ ParUnchanged

\* os.CreateTemp("", "sorttf-*.tf")
ParCreateTemp(w) ==
    /\ wpc[w] = "create"
    /\ \E n \in CreateTempNames(pfs) :
          /\ pfs' = [pfs EXCEPT ![n] = EmptyText]
          /\ wlocal' = [wlocal EXCEPT ![w].temp = n]
    /\ wpc' = [wpc EXCEPT ![w] = "writeTemp"]
    /\ ParUnchanged

\* tmpFile.WriteString(content), tmpFile.Close()
ParWriteTemp(w) ==
    /\ wpc[w] = "writeTemp"
    /\ pfs' = [pfs EXCEPT ![wlocal[w].temp] = wlocal[w].raw]
    /\ wpc' = [wpc EXCEPT ![w] = "fmt"]
    /\ UNCHANGED wlocal
    /\ ParUnchanged

\* terraform fmt on the temporary file; if it fails, the deferred os.Remove
\* and the return
ParTerraformFmt(w) ==
    /\ wpc[w] = "fmt"
    /\ IF pfs[wlocal[w].temp] = NoFile
       THEN ParReturn(w, CLIError("sorting/formatting error")) /\ UNCHANGED pfs
       ELSE /\ pfs' = [pfs EXCEPT ![wlocal[w].temp] = TerraformFmt(pfs[wlocal[w].temp])]
            /\ wpc' = [wpc EXCEPT ![w] = "readBack"]
            /\ UNCHANGED wlocal
    /\ ParUnchanged

\* os.ReadFile(tmpFile.Name())
ParReadBack(w) ==
    /\ wpc[w] = "readBack"
    /\ IF pfs[wlocal[w].temp] = NoFile
       THEN ParReturn(w, CLIError("sorting/formatting error"))
       ELSE /\ wlocal' = [wlocal EXCEPT ![w].formatted = pfs[wlocal[w].temp]]
            /\ wpc' = [wpc EXCEPT ![w] = "remove"]
    /\ UNCHANGED pfs
    /\ ParUnchanged

\* the deferred os.Remove(tmpFile.Name())
ParRemoveTemp(w) ==
    /\ wpc[w] = "remove"
    /\ pfs' = [pfs EXCEPT ![wlocal[w].temp] = NoFile]
    /\ wpc' = [wpc EXCEPT ![w] = "compare"]
    /\ UNCHANGED wlocal
    /\ ParUnchanged

\* the safety check, Step 4 and the dry-run and validate returns
ParCompare(w) ==
    /\ wpc[w] = "compare"
    /\ LET after == AfterCompare(wlocal[w].orig, wlocal[w].formatted, cfg) IN
       IF after = "write" THEN wpc' = [wpc EXCEPT ![w] = "write"] /\ UNCHANGED wlocal
       ELSE ParReturn(w, ReturnOf(after))
    /\ UNCHANGED pfs
    /\ ParUnchanged

\* Step 5: ioutil.WriteFile(tmpFile, formatted)
ParWriteTmp(w) ==
    /\ wpc[w] = "write"
    /\ pfs' = [pfs EXCEPT ![TmpPath(FileOf(w))] = wlocal[w].formatted]
    /\ wpc' = [wpc EXCEPT ![w] = "rename"]
    /\ UNCHANGED wlocal
    /\ ParUnchanged

\* os.Rename(tmpFile, filePath)
ParRename(w) ==
    /\ wpc[w] = "rename"
    /\ pfs' = [pfs EXCEPT ![FileOf(w)] = pfs[TmpPath(FileOf(w))], ![TmpPath(FileOf(w))] = NoFile]
    /\ ParReturn(w, ReturnedNil)
    /\ ParUnchanged

ParNext ==
    \E w \in Workers :
        \/ ParReadFile(w)
        \/ ParParseAndSort(w)
        \/ ParCreateTemp(w)
        \/ ParWriteTemp(w)
        \/ ParTerraformFmt(w)
        \/ ParReadBack(w)
        \/ ParRemoveTemp(w)
        \/ ParCompare(w)
        \/ ParWriteTmp(w)
        \/ ParRename(w)

ParSpec == ParInit /\ [][ParNext]_vars

\* C25: when two workers run processFile at once on two different files,
\* under every interleaving each worker returns what processFile returns on
\* its file alone, and leaves the file with the content processFile alone
\* leaves it with; and when both have returned no temporary file is left.
C25_ParallelAsSequential ==
    /\ \A w \in Workers :
          wpc[w] = "done" =>
              Outcome(wlocal[w].ret, pfs[FileOf(w)], pfs[TmpPath(FileOf(w))])
                  \in processFile(pfs0[FileOf(w)], "ok", cfg, tf)
    /\ (\A w \in Workers : wpc[w] = "done") => \A n \in TempNames : pfs[n] = NoFile

\* both workers have returned and each has rewritten its file, the two files
\* being different
C25_Witness ==
    /\ \A w \in Workers : wpc[w] = "done" /\ wlocal[w].ret = ReturnedNil
    /\ \A w \in Workers : pfs[FileOf(w)] # pfs0[FileOf(w)]
    /\ wlocal[1].temp # wlocal[2].temp
    /\ wlocal[1].raw # EmptyText /\ wlocal[2].raw # EmptyText

=============================================================================
